---- MODULE Spec2Model ----
(***************************************************************************)
(* The jsonlite parser of plugins/parsers/jsonlite/parser.go: the          *)
(* array/object dispatch of Parse, the object processor parseObject and    *)
(* the flattener FlattenJSON / FullFlattenJSON.                            *)
(* Spec is the parser under Parse and SetDefaultTags; SpecFlatten is the   *)
(* flattener called on its own, in basic and in full mode.                 *)
(*                                                                         *)
(* Representation.  A Go string or []byte is a sequence of one-character   *)
(* strings, so that trimming, splitting and byte search are computed as    *)
(* the code computes them.  A decoded JSON value (Go's interface{}) is a   *)
(* record whose field t is its dynamic type.  The containers are         *)
(*    [t |-> "map", v |-> a function from keys (strings) to values]        *)
(*    [t |-> "slice", v |-> a sequence of values, len |-> its length]      *)
(* and a scalar is [t, n, s, b], of which the field of its type counts:    *)
(*    "float64" n is the number in tenths (15 is 1.5, 10 is 1)             *)
(*    "string"  s is the string                                            *)
(*    "bool"    b is the BOOLEAN                                           *)
(*    "nil"     the JSON null                                              *)
(*    "other"   any Go value of another dynamic type (never produced by    *)
(*              the decoder)                                               *)
(* An error value is a string naming its kind; "nil" is the nil error.     *)
(***************************************************************************)
EXTENDS Integers, Sequences, FiniteSets, TLC

VARIABLES
    MetricName, TagKeys, DefaultTags,   \* the fields of the JSONLiteParser p
    pc,         \* where the Parse call stands: idle, object, array, done
    input,      \* the bytes the caller passed to Parse
    buf,        \* Parse's buf, after bytes.TrimSpace
    jsonOut,    \* the decoded top-level objects, in order (one on the object path)
    idx,        \* parseArray's loop position in jsonOut, from 1
    metrics,    \* the accumulating slice of metrics
    err,        \* parseArray's err after its last assignment
    ret,        \* what Parse returned: [metrics, err]
    path,       \* the branch Parse took: none, empty, object, array
    elemErrs,   \* the error of every parseObject call of this Parse, in order
    decoded,    \* whether this Parse called json.Unmarshal
    call,       \* the flattener call under study: function, TagKeys, value, flags
    runs,       \* the outcomes [f, err] of the runs of call, each on a fresh JSONFlattener
    lineCall,   \* the ParseLine call under study: the line and what was returned
    plugin,     \* the input plugin Gather runs on: its kind and its configured fields
    world,      \* what the polled services answer, by request
    client,     \* the plugin's client: "nil" until Gather sets it
    gpc,        \* where Gather stands: idle, launch, wait, returned
    wg,         \* the WaitGroup counter
    tasks,      \* the goroutines Gather launched, in the order of launch
    accumulator, \* the AddFields and the AddError calls the accumulator received
    reqs,       \* the requests sent so far, in order: [task, uri]
    gret        \* what Gather returned

parserVars == <<MetricName, TagKeys, DefaultTags,
                pc, input, buf, jsonOut, idx, metrics, err, ret, path, elemErrs, decoded>>

flattenVars == <<call, runs>>

lineVars == <<lineCall>>

gatherVars == <<plugin, world, client, gpc, wg, tasks, accumulator, reqs, gret>>

vars == <<MetricName, TagKeys, DefaultTags,
          pc, input, buf, jsonOut, idx, metrics, err, ret, path, elemErrs, decoded,
          call, runs, lineCall,
          plugin, world, client, gpc, wg, tasks, accumulator, reqs, gret>>

(***************************************************************************)
(* Bounds of the explored inputs.                                          *)
(***************************************************************************)
\* longest array payload, in elements
MaxElems == 2
\* most whitespace bytes put before and after a payload
MaxPad == 1

(***************************************************************************)
(* Strings and bytes.                                                      *)
(***************************************************************************)
Digits == <<"0", "1", "2", "3", "4", "5", "6", "7", "8", "9">>

IsDigit(c) == \E d \in 1..10 : Digits[d] = c

DigitVal(c) == (CHOOSE d \in 1..10 : Digits[d] = c) - 1

\* the ASCII members of the set bytes.TrimSpace strips
AsciiSpace == {" ", "\t", "\n", "\r"}

RECURSIVE TrimLeft(_, _)
TrimLeft(s, cutset) ==
    IF s # <<>> /\ Head(s) \in cutset THEN TrimLeft(Tail(s), cutset) ELSE s

RECURSIVE TrimRight(_, _)
TrimRight(s, cutset) ==
    IF s # <<>> /\ s[Len(s)] \in cutset
    THEN TrimRight(SubSeq(s, 1, Len(s) - 1), cutset)
    ELSE s

\* a trim of the trailing bytes only
TrimTrailing(s, cutset) == TrimRight(s, cutset)

\* strings.Trim(s, cutset)
Trim(s, cutset) == TrimRight(TrimLeft(s, cutset), cutset)

\* the trim forgotten: the buffer as passed
TrimSpaceOmitted(b) == b

\* bytes.TrimSpace(buf)
TrimSpace(b) == Trim(b, AsciiSpace)

\* a split that cuts nowhere
SplitNowhere(s, sep) == <<s>>

\* strings.Split(s, sep) for a one-byte separator: never empty, Split("") = [""]
RECURSIVE Split(_, _)
Split(s, sep) ==
    IF \E i \in 1..Len(s) : s[i] = sep
    THEN LET i == CHOOSE k \in 1..Len(s) : s[k] = sep /\ \A j \in 1..(k - 1) : s[j] # sep
         IN  <<SubSeq(s, 1, i - 1)>> \o Split(SubSeq(s, i + 1, Len(s)), sep)
    ELSE <<s>>

\* bytes.IndexByte(b, c): the 0-based index of the first c, -1 when absent
IndexByte(b, c) ==
    IF \E i \in 1..Len(b) : b[i] = c
    THEN (CHOOSE i \in 1..Len(b) : b[i] = c /\ \A j \in 1..(i - 1) : b[j] # c) - 1
    ELSE -1

\* a conversion that yields "0" for every index
ItoaZero(i) == <<"0">>

\* strconv.Itoa(i)
RECURSIVE Itoa(_)
Itoa(i) ==
    IF i < 0 THEN <<"-">> \o Itoa(-i)
    ELSE IF i < 10 THEN <<Digits[i + 1]>>
    ELSE Itoa(i \div 10) \o <<Digits[(i % 10) + 1]>>

\* strconv.FormatBool(b)
FormatBool(b) == IF b THEN <<"t", "r", "u", "e">> ELSE <<"f", "a", "l", "s", "e">>

\* strconv.FormatFloat(v, 'f', 1, 64): always one fraction digit
FormatFloatOneDigit(v) ==
    LET a == IF v < 0 THEN -v ELSE v
    IN  (IF v < 0 THEN <<"-">> ELSE <<>>) \o Itoa(a \div 10) \o <<".", Digits[(a % 10) + 1]>>

\* strconv.FormatFloat(v, 'f', -1, 64) of a number held in tenths: the
\* shortest decimal text that reads back as v, never with an exponent.
FormatFloat(v) ==
    LET a == IF v < 0 THEN -v ELSE v
    IN  (IF v < 0 THEN <<"-">> ELSE <<>>)
        \o Itoa(a \div 10)
        \o (IF a % 10 = 0 THEN <<>> ELSE <<".", Digits[(a % 10) + 1]>>)

\* a search that looks at the first element only
containsFirst(a, s) == Len(a) > 0 /\ a[1] = s

contains(a, s) == \E i \in 1..Len(a) : a[i] = s

isarray(b) ==
    LET ia == IndexByte(b, "[")
        ib == IndexByte(b, "{")
    IN  ia > -1 /\ ia < ib

(***************************************************************************)
(* Go maps as functions.                                                   *)
(***************************************************************************)
EmptyMap == <<>>

MapSet(m, k, v) == [x \in (DOMAIN m) \cup {k} |-> IF x = k THEN v ELSE m[x]]

MapDelete(m, k) == [x \in (DOMAIN m) \ {k} |-> m[x]]

\* a map[string]interface{} holding the members m
JMap(m) == [t |-> "map", v |-> m]

\* a []interface{} holding the elements s
JSlice(s) == [t |-> "slice", v |-> s, len |-> Len(s)]

JNil == [t |-> "nil", n |-> 0, s |-> <<>>, b |-> FALSE]

JNum(n) == [t |-> "float64", n |-> n, s |-> <<>>, b |-> FALSE]

JStr(s) == [t |-> "string", n |-> 0, s |-> s, b |-> FALSE]

JBool(b) == [t |-> "bool", n |-> 0, s |-> <<>>, b |-> b]

\* a value of a dynamic type the type switches do not list
JOther == [t |-> "other", n |-> 0, s |-> <<>>, b |-> FALSE]

\* m[k] of a map[string]interface{}: the nil interface when k is absent
MapIndex(m, k) == IF k \in DOMAIN m THEN m[k] ELSE JNil

(***************************************************************************)
(* encoding/json.Unmarshal, for the JSON texts over the bytes of the       *)
(* explored payloads: objects, arrays, strings with the escapes \\ and \", *)
(* numbers with an optional sign and at most one fraction digit, true,     *)
(* false, null, and the four JSON whitespace bytes.  A decoding step       *)
(* returns [ok, v, n]: whether a value starts at the position, the value,  *)
(* and the position after it.                                              *)
(***************************************************************************)
DecFail == [ok |-> FALSE, v |-> JNil, n |-> 0]

RECURSIVE SkipWS(_, _)
SkipWS(b, i) == IF i <= Len(b) /\ b[i] \in AsciiSpace THEN SkipWS(b, i + 1) ELSE i

\* the literal lit at position i of b, followed by no further letter
DecLiteral(b, i, lit, val) ==
    IF i + Len(lit) - 1 <= Len(b) /\ SubSeq(b, i, i + Len(lit) - 1) = lit
    THEN [ok |-> TRUE, v |-> val, n |-> i + Len(lit)]
    ELSE DecFail

\* the bytes of a string literal after its opening quote, from position i
RECURSIVE DecStringBody(_, _, _)
DecStringBody(b, i, acc) ==
    IF i > Len(b) THEN DecFail
    ELSE IF b[i] = "\"" THEN [ok |-> TRUE, v |-> JStr(acc), n |-> i + 1]
    ELSE IF b[i] = "\\"
         THEN IF i + 1 <= Len(b) /\ b[i + 1] \in {"\\", "\""}
              THEN DecStringBody(b, i + 2, Append(acc, b[i + 1]))
              ELSE DecFail
    ELSE IF b[i] \in {"\n", "\t", "\r"} THEN DecFail
    ELSE DecStringBody(b, i + 1, Append(acc, b[i]))

\* the digits from position i on: [n |-> position after them, val |-> their value]
RECURSIVE DecDigits(_, _, _)
DecDigits(b, i, acc) ==
    IF i <= Len(b) /\ IsDigit(b[i])
    THEN DecDigits(b, i + 1, 10 * acc + DigitVal(b[i]))
    ELSE [n |-> i, val |-> acc]

DecNumber(b, i) ==
    LET neg  == i <= Len(b) /\ b[i] = "-"
        s    == IF neg THEN i + 1 ELSE i
        int  == DecDigits(b, s, 0)
        \* a leading zero is the whole integer part
        intN == IF s <= Len(b) /\ b[s] = "0" THEN s + 1 ELSE int.n
        intV == IF s <= Len(b) /\ b[s] = "0" THEN 0 ELSE int.val
        frac == intN <= Len(b) /\ b[intN] = "."
        fOk  == intN + 1 <= Len(b) /\ IsDigit(b[intN + 1])
                  /\ ~(intN + 2 <= Len(b) /\ IsDigit(b[intN + 2]))
        tenths == 10 * intV + (IF frac THEN DigitVal(b[intN + 1]) ELSE 0)
        end  == IF frac THEN intN + 2 ELSE intN
    IN  IF intN = s \/ (frac /\ ~fOk) \/ (end <= Len(b) /\ IsDigit(b[end]))
        THEN DecFail
        ELSE [ok |-> TRUE,
              v  |-> JNum(IF neg THEN -tenths ELSE tenths),
              n  |-> end]

RECURSIVE DecValue(_, _)
RECURSIVE DecMembers(_, _, _)
RECURSIVE DecElems(_, _, _)

\* the members of an object from position i (after "{" or ","); a repeated
\* key keeps the last value
DecMembers(b, i, acc) ==
    LET k == SkipWS(b, i)
    IN  IF k > Len(b) \/ b[k] # "\"" THEN DecFail
        ELSE LET key == DecStringBody(b, k + 1, <<>>)
                 c   == SkipWS(b, key.n)
             IN  IF ~key.ok \/ c > Len(b) \/ b[c] # ":" THEN DecFail
                 ELSE LET val == DecValue(b, SkipWS(b, c + 1))
                          e   == SkipWS(b, val.n)
                          m   == MapSet(acc, key.v.s, val.v)
                      IN  IF ~val.ok \/ e > Len(b) THEN DecFail
                          ELSE IF b[e] = "," THEN DecMembers(b, e + 1, m)
                          ELSE IF b[e] = "}"
                               THEN [ok |-> TRUE, v |-> JMap(m), n |-> e + 1]
                          ELSE DecFail

\* the elements of an array from position i (after "[" or ",")
DecElems(b, i, acc) ==
    LET val == DecValue(b, SkipWS(b, i))
        e   == SkipWS(b, val.n)
    IN  IF ~val.ok \/ e > Len(b) THEN DecFail
        ELSE IF b[e] = "," THEN DecElems(b, e + 1, Append(acc, val.v))
        ELSE IF b[e] = "]"
             THEN [ok |-> TRUE, v |-> JSlice(Append(acc, val.v)), n |-> e + 1]
        ELSE DecFail

DecValue(b, i) ==
    IF i > Len(b) THEN DecFail
    ELSE IF b[i] = "{"
         THEN LET k == SkipWS(b, i + 1)
              IN  IF k <= Len(b) /\ b[k] = "}"
                  THEN [ok |-> TRUE, v |-> JMap(EmptyMap), n |-> k + 1]
                  ELSE DecMembers(b, i + 1, EmptyMap)
    ELSE IF b[i] = "["
         THEN LET k == SkipWS(b, i + 1)
              IN  IF k <= Len(b) /\ b[k] = "]"
                  THEN [ok |-> TRUE, v |-> JSlice(<<>>), n |-> k + 1]
                  ELSE DecElems(b, i + 1, <<>>)
    ELSE IF b[i] = "\"" THEN DecStringBody(b, i + 1, <<>>)
    ELSE IF b[i] = "-" \/ IsDigit(b[i]) THEN DecNumber(b, i)
    ELSE IF b[i] = "t" THEN DecLiteral(b, i, <<"t", "r", "u", "e">>, JBool(TRUE))
    ELSE IF b[i] = "f"
         THEN DecLiteral(b, i, <<"f", "a", "l", "s", "e">>, JBool(FALSE))
    ELSE IF b[i] = "n" THEN DecLiteral(b, i, <<"n", "u", "l", "l">>, JNil)
    ELSE DecFail

\* the one JSON value of the whole text: [ok, v]
DecodeText(b) ==
    LET r == DecValue(b, SkipWS(b, 1))
    IN  IF r.ok /\ SkipWS(b, r.n) > Len(b) THEN [ok |-> TRUE, v |-> r.v]
        ELSE [ok |-> FALSE, v |-> JNil]

\* json.Unmarshal(buf, &jsonOut) with jsonOut a map[string]interface{}: an
\* object fills the map, null leaves the nil map (which reads as an empty
\* one), any other value is a type error.  [err, out]
UnmarshalMap(b) ==
    LET d == DecodeText(b)
    IN  IF ~d.ok THEN [err |-> "syntax", out |-> EmptyMap]
        ELSE IF d.v.t = "map" THEN [err |-> "nil", out |-> d.v.v]
        ELSE IF d.v.t = "nil" THEN [err |-> "nil", out |-> EmptyMap]
        ELSE [err |-> "type", out |-> EmptyMap]

\* json.Unmarshal(buf, &jsonOut) with jsonOut a []map[string]interface{}:
\* an array fills the slice, a null element is a nil map, an element of
\* another type is a type error; a top-level null leaves the nil slice.
UnmarshalSlice(b) ==
    LET d == DecodeText(b)
    IN  IF ~d.ok THEN [err |-> "syntax", out |-> <<>>]
        ELSE IF d.v.t = "nil" THEN [err |-> "nil", out |-> <<>>]
        ELSE IF d.v.t # "slice" THEN [err |-> "type", out |-> <<>>]
        ELSE IF \E i \in 1..Len(d.v.v) : d.v.v[i].t \notin {"map", "nil"}
             THEN [err |-> "type", out |-> <<>>]
        ELSE [err |-> "nil",
              out |-> [i \in 1..Len(d.v.v) |->
                          IF d.v.v[i].t = "map" THEN d.v.v[i].v ELSE EmptyMap]]

(***************************************************************************)
(* Go slices and maps that may be nil.                                     *)
(***************************************************************************)
NilSlice == [isNil |-> TRUE, s |-> <<>>]

\* make([]telegraf.Metric, 0)
MakeSlice == [isNil |-> FALSE, s |-> <<>>]

\* append(sl, x)
AppendSlice(sl, x) == [isNil |-> FALSE, s |-> Append(sl.s, x)]

NilMap == [isNil |-> TRUE, m |-> EmptyMap]

\* make(map[string]interface{})
MakeMap == [isNil |-> FALSE, m |-> EmptyMap]

(***************************************************************************)
(* The flattener.  A JSONFlattener is [Fields, TagKeys].  Go visits the    *)
(* members of a map in an unspecified order, so a walk yields the set of   *)
(* its possible outcomes [f, err], one per order.                          *)
(***************************************************************************)
\* an assignment under the last segment of the path alone
SetFieldLastSegment(f, fieldname, val) ==
    LET elts == Split(fieldname, "_")
    IN  [f EXCEPT !.Fields = [isNil |-> FALSE, m |-> MapSet(f.Fields.m, elts[Len(elts)], val)]]

SetField(f, fieldname, val) ==
    [f EXCEPT !.Fields = [isNil |-> FALSE, m |-> MapSet(f.Fields.m, fieldname, val)]]

RECURSIVE FullFlattenJSON(_, _, _, _, _)
RECURSIVE FlattenMapRange(_, _, _, _, _, _)
RECURSIVE FlattenSliceRange(_, _, _, _, _, _)

\* a loop over a map that returns after the first member it visits
FlattenMapRangeFirstOnly(f, fieldname, t, todo, convertString, convertBool) ==
    IF todo = {} THEN {[f |-> f, err |-> "nil"]}
    ELSE UNION { FullFlattenJSON(f, fieldname \o <<"_">> \o k \o <<"_">>,
                                 t[k], convertString, convertBool)
               : k \in todo }

\* for k, v := range t, on a map: todo holds the keys not visited yet
FlattenMapRange(f, fieldname, t, todo, convertString, convertBool) ==
    IF todo = {} THEN {[f |-> f, err |-> "nil"]}
    ELSE UNION { UNION { IF o.err # "nil" THEN {o}
                         ELSE FlattenMapRange(o.f, fieldname, t, todo \ {k},
                                              convertString, convertBool)
                       : o \in FullFlattenJSON(f, fieldname \o <<"_">> \o k \o <<"_">>,
                                               t[k], convertString, convertBool) }
               : k \in todo }

\* a loop over a slice that ends at the first nil element
FlattenSliceRangeStopAtNil(f, fieldname, t, i, convertString, convertBool) ==
    IF i >= Len(t) \/ t[i + 1].t = "nil" THEN {[f |-> f, err |-> "nil"]}
    ELSE UNION { IF o.err # "nil" THEN {[f |-> o.f, err |-> "nil"]}
                 ELSE FlattenSliceRange(o.f, fieldname, t, i + 1, convertString, convertBool)
               : o \in FullFlattenJSON(f, fieldname \o <<"_">> \o Itoa(i) \o <<"_">>,
                                       t[i + 1], convertString, convertBool) }

\* for i, v := range t, on a slice, from index i (0-based): an element's
\* error ends the loop and is returned as nil
FlattenSliceRange(f, fieldname, t, i, convertString, convertBool) ==
    IF i >= Len(t) THEN {[f |-> f, err |-> "nil"]}
    ELSE UNION { IF o.err # "nil" THEN {[f |-> o.f, err |-> "nil"]}
                 ELSE FlattenSliceRange(o.f, fieldname, t, i + 1, convertString, convertBool)
               : o \in FullFlattenJSON(f, fieldname \o <<"_">> \o Itoa(i) \o <<"_">>,
                                       t[i + 1], convertString, convertBool) }

\* the walk that keeps a string or a bool by its flag alone
FullFlattenJSONFlagsOnly(f, fieldname0, v, convertString, convertBool) ==
    LET f1          == IF f.Fields.isNil THEN [f EXCEPT !.Fields = MakeMap] ELSE f
        fieldname   == Trim(fieldname0, {"_"})
        elts        == Split(fieldname, "_")
        tagFieldKey == elts[Len(elts)]
        listed      == contains(f1.TagKeys, tagFieldKey)
    IN  CASE v.t = "map" ->
               FlattenMapRange(f1, fieldname, v.v, DOMAIN v.v, convertString, convertBool)
          [] v.t = "slice" ->
               FlattenSliceRange(f1, fieldname, v.v, 0, convertString, convertBool)
          [] v.t = "float64" ->
               {[f |-> IF listed THEN SetField(f1, fieldname, v) ELSE f1, err |-> "nil"]}
          [] v.t = "string" ->
               {[f |-> IF convertString THEN SetField(f1, fieldname, v) ELSE f1,
                 err |-> "nil"]}
          [] v.t = "bool" ->
               {[f |-> IF convertBool THEN SetField(f1, fieldname, v) ELSE f1,
                 err |-> "nil"]}
          [] v.t = "nil" -> {[f |-> f1, err |-> "nil"]}
          [] OTHER -> {[f |-> f1, err |-> "unexpected type"]}

FullFlattenJSON(f, fieldname0, v, convertString, convertBool) ==
    LET f1          == IF f.Fields.isNil THEN [f EXCEPT !.Fields = MakeMap] ELSE f
        fieldname   == Trim(fieldname0, {"_"})
        elts        == Split(fieldname, "_")
        tagFieldKey == elts[Len(elts)]
        listed      == contains(f1.TagKeys, tagFieldKey)
    IN  CASE v.t = "map" ->
               FlattenMapRange(f1, fieldname, v.v, DOMAIN v.v, convertString, convertBool)
          [] v.t = "slice" ->
               FlattenSliceRange(f1, fieldname, v.v, 0, convertString, convertBool)
          [] v.t = "float64" ->
               {[f |-> IF listed THEN SetField(f1, fieldname, v) ELSE f1, err |-> "nil"]}
          [] v.t = "string" ->
               {[f |-> IF convertString \/ listed THEN SetField(f1, fieldname, v) ELSE f1,
                 err |-> "nil"]}
          [] v.t = "bool" ->
               {[f |-> IF convertBool \/ listed THEN SetField(f1, fieldname, v) ELSE f1,
                 err |-> "nil"]}
          [] v.t = "nil" -> {[f |-> f1, err |-> "nil"]}
          [] OTHER -> {[f |-> f1, err |-> "unexpected type"]}

FlattenJSON(f, fieldname, v) ==
    FullFlattenJSON(IF f.Fields.isNil THEN [f EXCEPT !.Fields = MakeMap] ELSE f,
                    fieldname, v, FALSE, FALSE)

(***************************************************************************)
(* metric.New(name, tags, fields, time): the metric package is not among   *)
(* the sources; construction fails on an empty name and on a tag key or    *)
(* value holding a disallowed byte, and otherwise yields the metric of the *)
(* given name, tags and fields (the timestamp is left out).                *)
(***************************************************************************)
DisallowedBytes == {"\\"}

HasDisallowed(s) == \E i \in 1..Len(s) : s[i] \in DisallowedBytes

MetricNew(name, tags, fields) ==
    IF Len(name) = 0 \/ \E k \in DOMAIN tags : HasDisallowed(k) \/ HasDisallowed(tags[k])
    THEN [err |-> "metric", metric |-> [name |-> <<>>, tags |-> EmptyMap, fields |-> NilMap]]
    ELSE [err |-> "nil", metric |-> [name |-> name, tags |-> tags, fields |-> fields]]

\* the nil telegraf.Metric
NilMetric == [name |-> <<>>, tags |-> EmptyMap, fields |-> NilMap]

(***************************************************************************)
(* parseObject.                                                            *)
(***************************************************************************)
\* the tag value of a top-level value of type string, bool or float64
TagValue(v) ==
    CASE v.t = "string"  -> v.s
      [] v.t = "bool"    -> FormatBool(v.b)
      [] v.t = "float64" -> FormatFloat(v.n)

\* the round with the delete left out
TagStepNoDelete(st, tag) ==
    LET v == MapIndex(st.jsonOut, tag)
    IN  [tags    |-> IF v.t \in {"string", "bool", "float64"}
                     THEN MapSet(st.tags, tag, TagValue(v)) ELSE st.tags,
         jsonOut |-> st.jsonOut]

\* the round with the delete done only in the cases that set a tag
TagStepDeleteInCases(st, tag) ==
    LET v == MapIndex(st.jsonOut, tag)
    IN  IF v.t \in {"string", "bool", "float64"}
        THEN [tags |-> MapSet(st.tags, tag, TagValue(v)), jsonOut |-> MapDelete(st.jsonOut, tag)]
        ELSE st

\* one round of "for _, tag := range p.TagKeys", on st = [tags, jsonOut]
TagStep(st, tag) ==
    LET v    == MapIndex(st.jsonOut, tag)
        tags == IF v.t \in {"string", "bool", "float64"}
                THEN MapSet(st.tags, tag, TagValue(v))
                ELSE st.tags
    IN  [tags |-> tags, jsonOut |-> MapDelete(st.jsonOut, tag)]

\* the rounds for tagKeys[i], tagKeys[i+1], ...
RECURSIVE TagLoop(_, _, _)
TagLoop(st, tagKeys, i) ==
    IF i > Len(tagKeys) THEN st ELSE TagLoop(TagStep(st, tagKeys[i]), tagKeys, i + 1)

\* parseObject with the tags started empty, the default tags left out
parseObjectNoDefaults(p, ms, obj) ==
    LET st == TagLoop([tags |-> EmptyMap, jsonOut |-> obj], p.TagKeys, 1)
        f  == [Fields |-> NilMap, TagKeys |-> p.TagKeys]
    IN  { IF o.err # "nil" THEN [metrics |-> NilSlice, err |-> o.err]
          ELSE LET mn == MetricNew(p.MetricName, st.tags, o.f.Fields)
               IN  IF mn.err # "nil" THEN [metrics |-> NilSlice, err |-> mn.err]
                   ELSE [metrics |-> AppendSlice(ms, mn.metric), err |-> "nil"]
        : o \in FlattenJSON(f, <<>>, JMap(st.jsonOut)) }

\* what parseObject returns, for every order the flattener may visit the
\* object's members in: [metrics, err]
parseObject(p, ms, obj) ==
    LET st == TagLoop([tags |-> p.DefaultTags, jsonOut |-> obj], p.TagKeys, 1)
        f  == [Fields |-> NilMap, TagKeys |-> p.TagKeys]
    IN  { IF o.err # "nil" THEN [metrics |-> NilSlice, err |-> o.err]
          ELSE LET mn == MetricNew(p.MetricName, st.tags, o.f.Fields)
               IN  IF mn.err # "nil" THEN [metrics |-> NilSlice, err |-> mn.err]
                   ELSE [metrics |-> AppendSlice(ms, mn.metric), err |-> "nil"]
        : o \in FlattenJSON(f, <<>>, JMap(st.jsonOut)) }

\* p.DefaultTags after a parseObject whose tags is p.DefaultTags itself:
\* the tag loop writes through to the parser's map
DefaultTagsShared(p, obj) ==
    TagLoop([tags |-> p.DefaultTags, jsonOut |-> obj], p.TagKeys, 1).tags

\* p.DefaultTags after parseObject: tags is a map of its own, made and
\* filled from p.DefaultTags, and the tag loop writes to it alone
DefaultTagsAfter(p, obj) == p.DefaultTags

\* what parseArray returns from the round of items[i] on, the slice being ms
RECURSIVE parseArrayFrom(_, _, _, _)
parseArrayFrom(p, items, i, ms) ==
    IF i > Len(items) THEN {[metrics |-> ms, err |-> "nil"]}
    ELSE UNION { parseArrayFrom(p, items, i + 1, o.metrics)
               : o \in parseObject(p, ms, items[i]) }

\* what Parse(b) returns on a parser of the fields p, as a function of p
\* and b alone
ParseResults(p, b) ==
    LET trimmed == TrimSpace(b)
    IN  IF Len(trimmed) = 0 THEN {[metrics |-> MakeSlice, err |-> "nil"]}
        ELSE IF ~isarray(trimmed)
        THEN LET u == UnmarshalMap(trimmed)
             IN  IF u.err # "nil"
                 THEN {[metrics |-> NilSlice, err |-> "unable to parse out as JSON"]}
                 ELSE parseObject(p, MakeSlice, u.out)
        ELSE LET u == UnmarshalSlice(trimmed)
             IN  IF u.err # "nil"
                 THEN {[metrics |-> NilSlice, err |-> "unable to parse out as JSON Array"]}
                 ELSE parseArrayFrom(p, u.out, 1, MakeSlice)

\* ParseLine that hands back the nil metric and a nil error when Parse
\* yields no metric
ParseLineNilOnEmpty(p, line) ==
    { IF r.err # "nil" THEN [metric |-> NilMetric, err |-> r.err]
      ELSE IF Len(r.metrics.s) < 1 THEN [metric |-> NilMetric, err |-> "nil"]
      ELSE [metric |-> r.metrics.s[1], err |-> "nil"]
    : r \in ParseResults(p, line \o <<"\n">>) }

\* what ParseLine(line) returns, [metric, err], for every result Parse may
\* give on the line followed by a newline
ParseLine(p, line) ==
    { IF r.err # "nil" THEN [metric |-> NilMetric, err |-> r.err]
      ELSE IF Len(r.metrics.s) < 1
      THEN [metric |-> NilMetric, err |-> "Can not parse the line"]
      ELSE [metric |-> r.metrics.s[1], err |-> "nil"]
    : r \in ParseResults(p, line \o <<"\n">>) }

(***************************************************************************)
(* The explored inputs: payloads as the bytes an HTTP response carries.    *)
(***************************************************************************)
\* {"t":"s","a":{"x":1}}
TextTagNested ==
    <<"{", "\"", "t", "\"", ":",
      "\"", "s", "\"", ",", "\"", "a", "\"", ":",
      "{", "\"", "x", "\"", ":",
      "1", "}", "}">>

\* {"t":"\\"}
TextBadTag ==
    <<"{", "\"", "t", "\"", ":", "\"", "\\", "\\", "\"", "}">>

\* null
TextNull ==
    <<"n", "u", "l", "l">>

\* {"t":1.0,"x":2}
TextNumTag ==
    <<"{", "\"", "t", "\"", ":", "1", ".", "0", ",", "\"", "x", "\"", ":", "2", "}">>

\* {"t":true,"a":[{"x":1.5},null]}
TextBoolTag ==
    <<"{", "\"", "t", "\"", ":",
      "t", "r", "u", "e", ",", "\"", "a", "\"", ":",
      "[", "{", "\"", "x", "\"", ":",
      "1", ".", "5", "}", ",", "n", "u", "l", "l", "]", "}">>

\* {"t":{"x":1},"b":2}
TextMapUnderTag ==
    <<"{", "\"", "t", "\"", ":",
      "{", "\"", "x", "\"", ":",
      "1", "}", ",", "\"", "b", "\"", ":",
      "2", "}">>

\* {"t":[{"x":1}],"h":-0.5}
TextSliceUnderTag ==
    <<"{", "\"", "t", "\"", ":",
      "[", "{", "\"", "x", "\"", ":",
      "1", "}", "]", ",", "\"", "h", "\"", ":",
      "-", "0", ".", "5", "}">>

\* {"t":null,"a":{"x":"s"}}
TextNullUnderTag ==
    <<"{", "\"", "t", "\"", ":",
      "n", "u", "l", "l", ",", "\"", "a", "\"", ":",
      "{", "\"", "x", "\"", ":",
      "\"", "s", "\"", "}", "}">>

\* {"x":"s","_x":1}
TextUnderscoreKey ==
    <<"{", "\"", "x", "\"", ":", "\"", "s", "\"", ",", "\"", "_", "x", "\"", ":", "1", "}">>

\* {"a":{"x":1},"a_x":2}
TextCollide ==
    <<"{", "\"", "a", "\"", ":",
      "{", "\"", "x", "\"", ":",
      "1", "}", ",", "\"", "a", "_", "x", "\"", ":",
      "2", "}">>

\* {"t":"s"
TextTruncObject ==
    <<"{", "\"", "t", "\"", ":", "\"", "s", "\"">>

\* [{"t":"s"}
TextTruncArray ==
    <<"[", "{", "\"", "t", "\"", ":", "\"", "s", "\"", "}">>

\* [{"t":"s"},5]
TextNumberElem ==
    <<"[", "{", "\"", "t", "\"", ":", "\"", "s", "\"", "}", ",", "5", "]">>

\* 5
TextNumber ==
    <<"5">>

\* "[{"
TextBracketString ==
    <<"\"", "[", "{", "\"">>

\* the objects an array payload is made of
ElemTexts == {TextTagNested, TextBadTag, TextNull, TextNumTag}

ObjectTexts ==
    ElemTexts \cup {TextBoolTag, TextMapUnderTag, TextSliceUnderTag, TextNullUnderTag,
                    TextUnderscoreKey, TextCollide}

\* payloads no branch decodes, or that hold no object at all
OtherTexts ==
    {<<>>, TextTruncObject, TextTruncArray, TextNumberElem, TextNumber, TextBracketString}

RECURSIVE JoinTexts(_, _)
JoinTexts(ts, i) ==
    IF i > Len(ts) THEN <<>>
    ELSE (IF i > 1 THEN <<",">> ELSE <<>>) \o ts[i] \o JoinTexts(ts, i + 1)

\* the JSON array of the given element texts
ArrayText(ts) == <<"[">> \o JoinTexts(ts, 1) \o <<"]">>

ArrayTexts == { ArrayText(ts) : ts \in UNION { [1..n -> ElemTexts] : n \in 0..MaxElems } }

Pad(n, c) == [i \in 1..n |-> c]

Inputs ==
    { Pad(n, " ") \o t \o Pad(m, "\n") :
        n \in 0..MaxPad, m \in 0..MaxPad, t \in ObjectTexts \cup ArrayTexts \cup OtherTexts }

\* the parser configurations the plugins build
MetricNames == { <<"m">>, <<>> }

TagKeyLists ==
    { <<>>, << <<"x">> >>, << <<"t">>, <<"x">> >>, << <<"a", "_", "x">>, <<"x">> >> }

DefaultTagSets ==
    { EmptyMap,
      (<<"t">> :> <<"d">>) @@ (<<"h">> :> <<"w">>),
      (<<"a", "_", "x">> :> <<"d">>) }

(***************************************************************************)
(* The parser as a state machine: one Parse call at a time.                *)
(***************************************************************************)
p == [MetricName |-> MetricName, TagKeys |-> TagKeys, DefaultTags |-> DefaultTags]

NoReturn == [metrics |-> NilSlice, err |-> "nil"]

\* a decode failure that hands back the empty slice made before the decode
DecodeFailureKeepsSlice(e) == [metrics |-> MakeSlice, err |-> e]

\* return nil, err after a failed json.Unmarshal
DecodeFailure(e) == [metrics |-> NilSlice, err |-> e]

\* no ParseLine call is under study
NoLine == [called |-> FALSE, line |-> <<>>, metric |-> NilMetric, err |-> "nil"]

\* no plugin is under study
NoPlugin == [kind |-> "none", Name |-> <<>>, TagKeys |-> <<>>, Endpoints |-> <<>>]

NoAcc == [fields |-> <<>>, errors |-> <<>>]

GatherUnused ==
    /\ plugin = NoPlugin
    /\ world = <<>>
    /\ client = "nil"
    /\ gpc = "idle"
    /\ wg = 0
    /\ tasks = <<>>
    /\ accumulator = NoAcc
    /\ reqs = <<>>
    /\ gret = "none"

\* no flattener call is under study
NoCall == [fn |-> "none", TagKeys |-> <<>>, v |-> JNil,
           convertString |-> FALSE, convertBool |-> FALSE]

Init ==
    /\ MetricName \in MetricNames
    /\ TagKeys \in TagKeyLists
    /\ DefaultTags \in DefaultTagSets
    /\ pc = "idle"
    /\ input = <<>>
    /\ buf = <<>>
    /\ jsonOut = <<>>
    /\ idx = 1
    /\ metrics = NilSlice
    /\ err = "nil"
    /\ ret = NoReturn
    /\ path = "none"
    /\ elemErrs = <<>>
    /\ decoded = FALSE
    /\ call = NoCall
    /\ runs = <<>>
    /\ lineCall = NoLine
    /\ GatherUnused

\* SetDefaultTags(tags)
SetDefaultTags(tags) ==
    /\ pc = "idle"
    /\ DefaultTags' = tags
    /\ UNCHANGED <<MetricName, TagKeys, pc, input, buf, jsonOut, idx, metrics, err, ret,
                   path, elemErrs, decoded>>
    /\ UNCHANGED <<flattenVars, lineVars, gatherVars>>

\* Parse(b), up to the call of parseObject or the loop of parseArray
Parse(b) ==
    /\ pc = "idle"
    /\ input' = b
    /\ buf' = TrimSpace(b)
    /\ IF Len(buf') = 0
       THEN /\ ret' = [metrics |-> MakeSlice, err |-> "nil"]
            /\ pc' = "done"
            /\ path' = "empty"
            /\ UNCHANGED <<jsonOut, metrics, err, decoded>>
       ELSE IF ~isarray(buf')
       THEN LET u == UnmarshalMap(buf')
            IN  /\ path' = "object"
                /\ decoded' = TRUE
                /\ metrics' = MakeSlice
                /\ IF u.err # "nil"
                   THEN /\ err' = "unable to parse out as JSON"
                        /\ ret' = DecodeFailure(err')
                        /\ pc' = "done"
                        /\ UNCHANGED jsonOut
                   ELSE /\ jsonOut' = <<u.out>>
                        /\ pc' = "object"
                        /\ UNCHANGED <<err, ret>>
       ELSE LET u == UnmarshalSlice(buf')
            IN  /\ path' = "array"
                /\ decoded' = TRUE
                /\ metrics' = MakeSlice
                /\ IF u.err # "nil"
                   THEN /\ err' = "unable to parse out as JSON Array"
                        /\ ret' = DecodeFailure(err')
                        /\ pc' = "done"
                        /\ UNCHANGED jsonOut
                   ELSE /\ jsonOut' = u.out
                        /\ pc' = "array"
                        /\ UNCHANGED <<err, ret>>
    /\ UNCHANGED <<MetricName, TagKeys, DefaultTags, idx, elemErrs>>
    /\ UNCHANGED <<flattenVars, lineVars, gatherVars>>

\* return p.parseObject(metrics, jsonOut), on the single-object path
ParseObjectCall ==
    /\ pc = "object"
    /\ \E o \in parseObject(p, metrics, jsonOut[1]) :
          /\ ret' = [metrics |-> o.metrics, err |-> o.err]
          /\ err' = o.err
          /\ elemErrs' = Append(elemErrs, o.err)
    /\ DefaultTags' = DefaultTagsAfter(p, jsonOut[1])
    /\ pc' = "done"
    /\ UNCHANGED <<MetricName, TagKeys, input, buf, jsonOut, idx, metrics, path, decoded>>
    /\ UNCHANGED <<flattenVars, lineVars, gatherVars>>

\* one round of parseArray's loop: metrics, err = p.parseObject(metrics, item)
ParseArrayItem ==
    /\ pc = "array"
    /\ idx <= Len(jsonOut)
    /\ \E o \in parseObject(p, metrics, jsonOut[idx]) :
          /\ metrics' = o.metrics
          /\ err' = o.err
          /\ elemErrs' = Append(elemErrs, o.err)
    /\ DefaultTags' = DefaultTagsAfter(p, jsonOut[idx])
    /\ idx' = idx + 1
    /\ UNCHANGED <<MetricName, TagKeys, pc, input, buf, jsonOut, ret, path, decoded>>
    /\ UNCHANGED <<flattenVars, lineVars, gatherVars>>

\* parseArray's return after the loop: return metrics, nil
ParseArrayReturn ==
    /\ pc = "array"
    /\ idx > Len(jsonOut)
    /\ ret' = [metrics |-> metrics, err |-> "nil"]
    /\ pc' = "done"
    /\ UNCHANGED <<MetricName, TagKeys, DefaultTags, input, buf, jsonOut, idx, metrics,
                   err, path, elemErrs, decoded>>
    /\ UNCHANGED <<flattenVars, lineVars, gatherVars>>

\* the caller has the result; the call's locals are gone
Return ==
    /\ pc = "done"
    /\ pc' = "idle"
    /\ input' = <<>>
    /\ buf' = <<>>
    /\ jsonOut' = <<>>
    /\ idx' = 1
    /\ metrics' = NilSlice
    /\ err' = "nil"
    /\ ret' = NoReturn
    /\ path' = "none"
    /\ elemErrs' = <<>>
    /\ decoded' = FALSE
    /\ UNCHANGED <<MetricName, TagKeys, DefaultTags>>
    /\ UNCHANGED <<flattenVars, lineVars, gatherVars>>

Next ==
    \/ \E tags \in DefaultTagSets : SetDefaultTags(tags)
    \/ \E b \in Inputs : Parse(b)
    \/ ParseObjectCall
    \/ ParseArrayItem
    \/ ParseArrayReturn
    \/ Return

Spec == Init /\ [][Next]_vars

(***************************************************************************)
(* What the claims speak of.                                               *)
(***************************************************************************)
Range(seq) == { seq[i] : i \in 1..Len(seq) }

\* some parseObject call of the current Parse has returned
ElemDone == elemErrs # <<>>

\* the object the last parseObject call was given, its error, the slice
\* it returned and, when it made one, its metric
LastItem == jsonOut[Len(elemErrs)]

LastErr == elemErrs[Len(elemErrs)]

LastOut == IF path = "array" THEN metrics ELSE ret.metrics

LastMetric == LastOut.s[Len(LastOut.s)]

\* a parseObject call has returned a metric
MetricMade == ElemDone /\ LastErr = "nil"

\* the metrics parseObject can build from obj alone
MetricsOf(obj) ==
    { o.metrics.s[1] : o \in { q \in parseObject(p, MakeSlice, obj) : q.err = "nil" } }

\* the path of the member k of a value whose path is fieldname
ChildPath(fieldname, k) == Trim(fieldname \o <<"_">> \o k \o <<"_">>, {"_"})

\* the scalar leaves of v, each with its path: [path, val]
RECURSIVE Leaves(_, _)
Leaves(fieldname, v) ==
    CASE v.t = "map" ->
           UNION { Leaves(ChildPath(fieldname, k), v.v[k]) : k \in DOMAIN v.v }
      [] v.t = "slice" ->
           UNION { Leaves(ChildPath(fieldname, Itoa(i - 1)), v.v[i]) : i \in 1..Len(v.v) }
      [] v.t = "nil" -> {}
      [] OTHER -> {[path |-> fieldname, val |-> v]}

\* the leaves of the top-level member k of obj
MemberLeaves(obj, k) == Leaves(ChildPath(<<>>, k), obj[k])

\* the text after the last underscore of a path
LastSegment(path0) == LET elts == Split(path0, "_") IN elts[Len(elts)]

AllowListed(leaf) == LastSegment(leaf.path) \in Range(TagKeys)

HasUnderscore(s) == \E i \in 1..Len(s) : s[i] = "_"

(***************************************************************************)
(* C1.  Parse takes the array path exactly when '[' occurs in the trimmed  *)
(* buffer and either '{' does not occur or the first '[' is before the     *)
(* first '{'; so "[]" is taken on the array path.                          *)
(* Fails: isarray compares the index of '[' with -1 when '{' is absent.    *)
(***************************************************************************)
ClaimedArray(b) ==
    /\ \E i \in 1..Len(b) : b[i] = "["
    /\ \/ \A j \in 1..Len(b) : b[j] # "{"
       \/ \E i \in 1..Len(b) :
             /\ b[i] = "["
             /\ \A j \in 1..i : b[j] # "{"

\* C1: the array path is taken exactly when the claimed classification holds
C1_ArrayClassification ==
    path \in {"object", "array"} => (path = "array" <=> ClaimedArray(buf))

(***************************************************************************)
(* C2.  Once Parse has returned, if any parseObject call of it returned an *)
(* error, Parse returned a non-nil error.                                  *)
(* Fails: parseArray assigns err in its loop and returns nil.              *)
(***************************************************************************)
SomeElemFailed == \E i \in 1..Len(elemErrs) : elemErrs[i] # "nil"

\* C2: an error of any parseObject call is returned by Parse
C2_ElementErrorReturned ==
    (pc = "done" /\ SomeElemFailed) => ret.err # "nil"

(***************************************************************************)
(* C3.  When Parse returns without error on the object or the array path,  *)
(* it returns as many metrics as there are top-level objects, the i-th     *)
(* built from the i-th object.                                             *)
(* Fails with C2: an array with a failing element returns no error and     *)
(* fewer metrics than elements.                                            *)
(***************************************************************************)
\* C3: without error, one metric per top-level object, in order
C3_OneMetricPerObject ==
    (pc = "done" /\ ret.err = "nil" /\ path \in {"object", "array"}) =>
        /\ Len(ret.metrics.s) = Len(jsonOut)
        /\ \A i \in 1..Len(jsonOut) : ret.metrics.s[i] \in MetricsOf(jsonOut[i])

(***************************************************************************)
(* C4.  When an element of a decoded array fails in parseObject, every     *)
(* element is still processed and the metric of every element that did not *)
(* fail, before or after the failing one, is in the returned sequence.     *)
(* Fails: the failing call returns a nil slice, which replaces the metrics *)
(* gathered so far.                                                        *)
(***************************************************************************)
\* C4: after a failing element, all elements are processed and the others' metrics returned
C4_OtherElementsKept ==
    (pc = "done" /\ path = "array" /\ SomeElemFailed) =>
        /\ Len(elemErrs) = Len(jsonOut)
        /\ \A i \in 1..Len(jsonOut) :
              elemErrs[i] = "nil" =>
                  \E j \in 1..Len(ret.metrics.s) : ret.metrics.s[j] \in MetricsOf(jsonOut[i])

(***************************************************************************)
(* C5.  If the trimmed payload does not decode on the branch Parse chose   *)
(* (a map on the object path, a slice of maps on the array path), Parse    *)
(* has returned at once: a non-nil error, a nil metric slice, and no       *)
(* parseObject call.                                                       *)
(***************************************************************************)
DecodeFails ==
    \/ path = "object" /\ UnmarshalMap(buf).err # "nil"
    \/ path = "array" /\ UnmarshalSlice(buf).err # "nil"

\* C5: a payload its branch cannot decode ends Parse with an error, a nil slice, no element
C5_DecodeErrorAborts ==
    DecodeFails =>
        /\ pc = "done"
        /\ ret.err # "nil"
        /\ ret.metrics.isNil
        /\ ret.metrics.s = <<>>
        /\ elemErrs = <<>>

C5_Witness ==
    /\ pc = "done"
    /\ DecodeFails
    /\ path = "array"
    /\ \E i \in 1..Len(buf) : buf[i] = "{"

(***************************************************************************)
(* C6.  Parse of an empty or all-whitespace buffer has returned an empty,  *)
(* non-nil metric slice and a nil error, without calling json.Unmarshal or *)
(* parseObject.                                                            *)
(***************************************************************************)
AllSpace(b) == \A i \in 1..Len(b) : b[i] \in AsciiSpace

\* C6: a blank buffer returns an empty non-nil slice and no error, undecoded
C6_BlankInput ==
    (path # "none" /\ AllSpace(input)) =>
        /\ pc = "done"
        /\ ret = [metrics |-> MakeSlice, err |-> "nil"]
        /\ ~decoded
        /\ elemErrs = <<>>

C6_Witness ==
    /\ pc = "done"
    /\ Len(input) > 0
    /\ AllSpace(input)

(***************************************************************************)
(* C7.  The tags of a metric are the default tags overridden by            *)
(* extraction: a configured tag key whose top-level value is a string, a   *)
(* boolean or a number carries that value as text ("true"/"false", the     *)
(* shortest decimal form of a number), every other default tag is kept     *)
(* and there is no other tag.                                              *)
(***************************************************************************)
Extracted(obj, k) ==
    /\ k \in Range(TagKeys)
    /\ k \in DOMAIN obj
    /\ obj[k].t \in {"string", "bool", "float64"}

\* s is the shortest decimal text of the number v (in tenths)
IsShortestDecimal(s, v) ==
    LET d == DecNumber(s, 1)
    IN  /\ d.ok
        /\ d.n = Len(s) + 1
        /\ d.v.n = v
        /\ (\E i \in 1..Len(s) : s[i] = ".") => s[Len(s)] # "0"

IsTextOf(s, v) ==
    CASE v.t = "string"  -> s = v.s
      [] v.t = "bool"    -> s = (IF v.b THEN <<"t", "r", "u", "e">> ELSE <<"f", "a", "l", "s", "e">>)
      [] v.t = "float64" -> IsShortestDecimal(s, v.n)

\* C7: the tags are the default tags overridden by the extracted top-level scalars
C7_TagsAreDefaultsOverridden ==
    MetricMade =>
        /\ DOMAIN LastMetric.tags =
              (DOMAIN DefaultTags) \cup { k \in DOMAIN LastItem : Extracted(LastItem, k) }
        /\ \A k \in DOMAIN LastMetric.tags :
              IF Extracted(LastItem, k)
              THEN IsTextOf(LastMetric.tags[k], LastItem[k])
              ELSE LastMetric.tags[k] = DefaultTags[k]

\* a number replaces a default tag, another default tag is kept
C7_Witness ==
    /\ MetricMade
    /\ \E k \in DOMAIN DefaultTags :
          /\ Extracted(LastItem, k)
          /\ LastItem[k].t = "float64"
          /\ LastMetric.tags[k] # DefaultTags[k]
    /\ \E k \in DOMAIN DefaultTags : ~Extracted(LastItem, k)

(***************************************************************************)
(* C8.  As claimed: a configured tag key whose top-level value is a map,   *)
(* an array or null gives no tag, and the allow-listed leaves of that      *)
(* value are fields of the metric.                                         *)
(* As amended: such a key gives no tag, and its value is removed before    *)
(* flattening: every field of the metric is a leaf of another top-level    *)
(* member.                                                                 *)
(***************************************************************************)
Unextracted(obj) ==
    { k \in (DOMAIN obj) \cap Range(TagKeys) : obj[k].t \in {"map", "slice", "nil"} }

NoTagFrom(k) ==
    k \in DOMAIN LastMetric.tags =>
        (k \in DOMAIN DefaultTags /\ LastMetric.tags[k] = DefaultTags[k])

\* C8 as claimed: no tag from a map, array or null, and its allow-listed leaves are fields
C8_Claimed_NestedTagValueFlattened ==
    MetricMade =>
        \A k \in Unextracted(LastItem) :
            /\ NoTagFrom(k)
            /\ \A leaf \in MemberLeaves(LastItem, k) :
                  AllowListed(leaf) =>
                      /\ leaf.path \in DOMAIN LastMetric.fields.m
                      /\ LastMetric.fields.m[leaf.path] = leaf.val

\* C8 as amended: no tag from a map, array or null, and no field from its leaves
C8_NestedTagValueRemoved ==
    MetricMade =>
        \A k \in Unextracted(LastItem) :
            /\ NoTagFrom(k)
            /\ \A f \in DOMAIN LastMetric.fields.m :
                  \E k2 \in (DOMAIN LastItem) \ {k} :
                      [path |-> f, val |-> LastMetric.fields.m[f]] \in MemberLeaves(LastItem, k2)

\* a map with an allow-listed leaf sits under a configured tag key
C8_Witness ==
    /\ MetricMade
    /\ \E k \in Unextracted(LastItem) :
          /\ LastItem[k].t = "map"
          /\ \E leaf \in MemberLeaves(LastItem, k) : AllowListed(leaf)

(***************************************************************************)
(* C9.  Every configured tag key is removed from the top level of the      *)
(* object before flattening, extracted or not: every field of the metric   *)
(* is a leaf of a top-level member whose key is not a configured tag key.  *)
(***************************************************************************)
\* C9: no field comes from a top-level member whose key is a configured tag key
C9_TagKeysNeverFields ==
    MetricMade =>
        \A f \in DOMAIN LastMetric.fields.m :
            \E k \in (DOMAIN LastItem) \ Range(TagKeys) :
                [path |-> f, val |-> LastMetric.fields.m[f]] \in MemberLeaves(LastItem, k)

\* a scalar under a configured tag key would be allow-listed as a field,
\* and the metric has a field of another member
C9_Witness ==
    /\ MetricMade
    /\ \E k \in (DOMAIN LastItem) \cap Range(TagKeys) :
          /\ LastItem[k].t = "string"
          /\ \E leaf \in MemberLeaves(LastItem, k) : AllowListed(leaf)
    /\ DOMAIN LastMetric.fields.m # {}

(***************************************************************************)
(* C10.  As claimed: in every metric the tag keys and the field paths are  *)
(* disjoint, whatever the object, the tag-key list and the default tags.   *)
(* As amended: they are disjoint when no configured or default tag key     *)
(* holds an underscore and no top-level key of the object is empty or      *)
(* begins or ends with an underscore.                                      *)
(***************************************************************************)
TagsFieldsDisjoint == (DOMAIN LastMetric.tags) \cap (DOMAIN LastMetric.fields.m) = {}

\* C10 as claimed: tag keys and field paths are disjoint in every metric
C10_Claimed_TagsFieldsDisjoint == MetricMade => TagsFieldsDisjoint

PlainKeys ==
    /\ \A k \in Range(TagKeys) \cup DOMAIN DefaultTags : ~HasUnderscore(k)
    /\ \A k \in DOMAIN LastItem : k # <<>> /\ k[1] # "_" /\ k[Len(k)] # "_"

\* C10 as amended: tag keys and field paths are disjoint for plain keys
C10_TagsFieldsDisjointPlainKeys == (MetricMade /\ PlainKeys) => TagsFieldsDisjoint

\* a metric with an extracted tag and a field
C10_Witness ==
    /\ MetricMade
    /\ PlainKeys
    /\ \E k \in DOMAIN LastItem : Extracted(LastItem, k)
    /\ DOMAIN LastMetric.fields.m # {}

(***************************************************************************)
(* The flattener called on its own: FlattenJSON (basic mode) and           *)
(* FullFlattenJSON, each on a JSONFlattener{TagKeys: ...} whose Fields is  *)
(* nil, with the empty fieldname parseObject passes.  A call is run a      *)
(* second time on a second fresh flattener, so that the orders in which    *)
(* the two runs visit the members of the maps are independent.             *)
(***************************************************************************)
\* most members of a generated object, most elements of a generated sequence
MaxMembers == 2

\* the values at the leaves
Scalars == {JNum(10), JNum(25), JStr(<<"s">>), JBool(TRUE), JNil, JOther}

MemberKeys == {<<"x">>, <<"a">>, <<"i", "d">>}

OuterKeys == {<<"a">>, <<"x", "_">>, <<>>}

\* the maps of at most MaxMembers members, keys from keys, values from vals
Objects(keys, vals) ==
    UNION { [d -> vals] : d \in { e \in SUBSET keys : Cardinality(e) <= MaxMembers } }

\* the sequences of at most MaxMembers elements from vals
Slices(vals) == UNION { [1..n -> vals] : n \in 0..MaxMembers }

ScalarObjects == { JMap(m) : m \in Objects(MemberKeys, Scalars) }

ScalarSlices == { JSlice(q) : q \in Slices(Scalars) }

\* the values at the leaves of the generated nested values
NestedScalars == {JNum(10), JStr(<<"s">>), JNil, JOther}

\* a generated object or sequence under one key
NestedObjects ==
    { JMap(k :> c) : k \in OuterKeys,
                     c \in { JMap(m) : m \in Objects(MemberKeys, NestedScalars) }
                            \cup { JSlice(q) : q \in Slices(NestedScalars) } }

\* {"items":[{"id":"A"},{"id":"B"}]}
ValueItems ==
    JMap(<<"i", "t", "e", "m", "s">> :>
           JSlice(<< JMap(<<"i", "d">> :> JStr(<<"A">>)),
                     JMap(<<"i", "d">> :> JStr(<<"B">>)) >>))

\* {"nested":{"count":5}}
ValueNested ==
    JMap(<<"n", "e", "s", "t", "e", "d">> :> JMap(<<"c", "o", "u", "n", "t">> :> JNum(50)))

\* {"a":{"x":1},"a_x":2}
ValueCollide ==
    JMap((<<"a">> :> JMap(<<"x">> :> JNum(10))) @@ (<<"a", "_", "x">> :> JNum(20)))

\* {"a":[1],"a_0":2}
ValueIndexCollide ==
    JMap((<<"a">> :> JSlice(<<JNum(10)>>)) @@ (<<"a", "_", "0">> :> JNum(20)))

\* {"a":{"":{"x":1}}}
ValueEmptyKey == JMap(<<"a">> :> JMap(<<>> :> JMap(<<"x">> :> JNum(10))))

\* {"a":{"_x":1,"x_":true}}
ValueUnderscoreEnds ==
    JMap(<<"a">> :> JMap((<<"_", "x">> :> JNum(10)) @@ (<<"x", "_">> :> JBool(TRUE))))

\* {"a":[[null,1],{"x":null,"id":2.5}]}
ValueDeep ==
    JMap(<<"a">> :> JSlice(<< JSlice(<<JNil, JNum(10)>>),
                              JMap((<<"x">> :> JNil) @@ (<<"i", "d">> :> JNum(25))) >>))

\* a value of an unexpected type under nested objects, beside a number
ValueOtherNested ==
    JMap(<<"a">> :> JMap((<<"a">> :> JMap(<<"x">> :> JOther)) @@ (<<"x">> :> JNum(10))))

\* a value of an unexpected type in a sequence of a sequence
ValueOtherInSlices == JMap(<<"a">> :> JSlice(<< JSlice(<<JOther>>), JNum(10) >>))

FlattenValues ==
    Scalars \cup ScalarObjects \cup ScalarSlices \cup NestedObjects
      \cup {ValueItems, ValueNested, ValueCollide, ValueIndexCollide, ValueEmptyKey,
            ValueUnderscoreEnds, ValueDeep, ValueOtherNested, ValueOtherInSlices}

FlattenTagKeyLists ==
    { <<>>, << <<"x">> >>, << <<"i", "d">>, <<"0">> >>,
      << <<"c", "o", "u", "n", "t">>, <<"_", "x">>, <<"x", "_">>, <<"a", "_", "x">> >> }

\* JSONFlattener{TagKeys: tagKeys}
NewFlattener(tagKeys) == [Fields |-> NilMap, TagKeys |-> tagKeys]

\* the outcomes of the call c on a fresh flattener
Outcomes(c) ==
    IF c.fn = "FlattenJSON"
    THEN FlattenJSON(NewFlattener(c.TagKeys), <<>>, c.v)
    ELSE FullFlattenJSON(NewFlattener(c.TagKeys), <<>>, c.v, c.convertString, c.convertBool)

FlattenInit ==
    /\ MetricName = <<"m">>
    /\ TagKeys = <<>>
    /\ DefaultTags = EmptyMap
    /\ pc = "idle"
    /\ input = <<>>
    /\ buf = <<>>
    /\ jsonOut = <<>>
    /\ idx = 1
    /\ metrics = NilSlice
    /\ err = "nil"
    /\ ret = NoReturn
    /\ path = "none"
    /\ elemErrs = <<>>
    /\ decoded = FALSE
    /\ call = NoCall
    /\ runs = <<>>
    /\ lineCall = NoLine
    /\ GatherUnused

\* f := JSONFlattener{TagKeys: tagKeys}; err := f.FlattenJSON("", v)
CallFlattenJSON(tagKeys, v) ==
    /\ call.fn = "none"
    /\ call' = [fn |-> "FlattenJSON", TagKeys |-> tagKeys, v |-> v,
                convertString |-> FALSE, convertBool |-> FALSE]
    /\ \E o \in Outcomes(call') : runs' = <<o>>
    /\ UNCHANGED <<parserVars, lineVars, gatherVars>>

\* f := JSONFlattener{TagKeys: tagKeys}
\* err := f.FullFlattenJSON("", v, convertString, convertBool)
CallFullFlattenJSON(tagKeys, v, convertString, convertBool) ==
    /\ call.fn = "none"
    /\ call' = [fn |-> "FullFlattenJSON", TagKeys |-> tagKeys, v |-> v,
                convertString |-> convertString, convertBool |-> convertBool]
    /\ \E o \in Outcomes(call') : runs' = <<o>>
    /\ UNCHANGED <<parserVars, lineVars, gatherVars>>

\* the same call once more, on another fresh flattener
RunAgain ==
    /\ Len(runs) = 1
    /\ \E o \in Outcomes(call) : runs' = Append(runs, o)
    /\ UNCHANGED <<call>>
    /\ UNCHANGED <<parserVars, lineVars, gatherVars>>

\* both flatteners are dropped
FlattenDone ==
    /\ call.fn # "none"
    /\ call' = NoCall
    /\ runs' = <<>>
    /\ UNCHANGED <<parserVars, lineVars, gatherVars>>

FlattenNext ==
    \/ \E tagKeys \in FlattenTagKeyLists, v \in FlattenValues : CallFlattenJSON(tagKeys, v)
    \/ \E tagKeys \in FlattenTagKeyLists, v \in FlattenValues, cs \in BOOLEAN, cb \in BOOLEAN :
          CallFullFlattenJSON(tagKeys, v, cs, cb)
    \/ RunAgain
    \/ FlattenDone

SpecFlatten == FlattenInit /\ [][FlattenNext]_vars

(***************************************************************************)
(* What the claims about the flattener speak of.                           *)
(***************************************************************************)
\* no value of an unexpected type occurs in v
RECURSIVE WellTyped(_)
WellTyped(v) ==
    CASE v.t = "map"   -> \A k \in DOMAIN v.v : WellTyped(v.v[k])
      [] v.t = "slice" -> \A i \in 1..Len(v.v) : WellTyped(v.v[i])
      [] OTHER         -> v.t # "other"

\* the scalar leaves of the value of the call, each with its path
FlattenLeaves == Leaves(<<>>, call.v)

\* the last segment of the path is one of the flattener's tag keys
Listed(path0) == LastSegment(path0) \in Range(call.TagKeys)

\* the fields mapping the i-th run left in its flattener
FieldsOf(i) == runs[i].f.Fields.m

\* the values of the leaves of the call's value whose path is path0
ValuesAt(path0) == { l.val : l \in { q \in FlattenLeaves : q.path = path0 } }

FlagOf(ty) == IF ty = "string" THEN call.convertString ELSE call.convertBool

ItemsFields ==
    (<<"i", "t", "e", "m", "s", "_", "0", "_", "i", "d">> :> JStr(<<"A">>))
      @@ (<<"i", "t", "e", "m", "s", "_", "1", "_", "i", "d">> :> JStr(<<"B">>))

C13_BasicModeKeepsNumbersOnly ==
    \A i \in 1..Len(runs) :
        call.fn = "FlattenJSON" =>
            \A k \in DOMAIN FieldsOf(i) : FieldsOf(i)[k].t = "float64"

(***************************************************************************)
(* C14.  The field name of a kept leaf is the chain of the object keys and *)
(* decimal sequence indices from the top-level value to the leaf, joined   *)
(* by underscores, with leading and trailing underscores stripped;         *)
(* {"nested":{"count":5}} with tag key "count" yields nested_count = 5.    *)
(* Fails as stated: the path is trimmed at every level, not once at the    *)
(* end, so an empty key or a key ending in an underscore in the middle of  *)
(* the chain loses underscores: {"a":{"":{"x":1}}} yields a_x, not a__x.   *)
(* Holds when no key of the value is empty or ends with an underscore.     *)
(***************************************************************************)
\* the scalar leaves of v with the chain of keys and indices that leads to
\* each, the positions of the chain that are sequence indices and the path
\* the walk gives the leaf: [chain, idxs, path, val]
RECURSIVE KeyedLeaves(_, _, _, _)
KeyedLeaves(chain, idxs, fieldname, v) ==
    CASE v.t = "map" ->
           UNION { KeyedLeaves(Append(chain, k), idxs, ChildPath(fieldname, k), v.v[k])
                   : k \in DOMAIN v.v }
      [] v.t = "slice" ->
           UNION { KeyedLeaves(Append(chain, Itoa(i - 1)), idxs \cup {Len(chain) + 1},
                               ChildPath(fieldname, Itoa(i - 1)), v.v[i])
                   : i \in 1..Len(v.v) }
      [] v.t = "nil" -> {}
      [] OTHER -> {[chain |-> chain, idxs |-> idxs, path |-> fieldname, val |-> v]}

\* the leaves of the call's value that the rules of C11 and C12 keep
KeptLeaves ==
    { l \in KeyedLeaves(<<>>, {}, <<>>, call.v) :
        CASE l.val.t = "float64" -> Listed(l.path)
          [] l.val.t \in {"string", "bool"} -> FlagOf(l.val.t) \/ Listed(l.path)
          [] OTHER -> FALSE }

\* k1_k2_..._kn
RECURSIVE JoinChain(_, _)
JoinChain(chain, i) ==
    IF i > Len(chain) THEN <<>>
    ELSE IF i = Len(chain) THEN chain[i]
    ELSE chain[i] \o <<"_">> \o JoinChain(chain, i + 1)

\* the joined chain with leading and trailing underscores stripped
ClaimedName(chain) == Trim(JoinChain(chain, 1), {"_"})

\* the entries of Fields are the kept leaves under their claimed names
NamedByChain(i) ==
    /\ \A l \in KeptLeaves :
          /\ ClaimedName(l.chain) \in DOMAIN FieldsOf(i)
          /\ \E q \in KeptLeaves :
                /\ ClaimedName(q.chain) = ClaimedName(l.chain)
                /\ FieldsOf(i)[ClaimedName(l.chain)] = q.val
    /\ \A k \in DOMAIN FieldsOf(i) :
          \E l \in KeptLeaves : ClaimedName(l.chain) = k /\ l.val = FieldsOf(i)[k]

\* C14 as stated: every kept leaf is stored under its joined and stripped chain
C14_Claimed_NameIsJoinedChain ==
    \A i \in 1..Len(runs) : WellTyped(call.v) => NamedByChain(i)

\* the object keys that occur in v, at any depth
RECURSIVE KeysOf(_)
KeysOf(v) ==
    CASE v.t = "map"   -> (DOMAIN v.v) \cup UNION { KeysOf(v.v[k]) : k \in DOMAIN v.v }
      [] v.t = "slice" -> UNION { KeysOf(v.v[i]) : i \in 1..Len(v.v) }
      [] OTHER         -> {}

\* k is not empty and does not end with an underscore
EndsPlain(k) == k # <<>> /\ k[Len(k)] # "_"

NestedCountFields ==
    <<"n", "e", "s", "t", "e", "d", "_", "c", "o", "u", "n", "t">> :> JNum(50)

\* C14: with no empty key and no key ending in an underscore, every kept leaf is stored under its joined and stripped chain
C14_NameIsJoinedChainPlainEnds ==
    \A i \in 1..Len(runs) :
        /\ (WellTyped(call.v) /\ \A k \in KeysOf(call.v) : EndsPlain(k)) => NamedByChain(i)
        /\ (/\ call.v = ValueNested
            /\ <<"c", "o", "u", "n", "t">> \in Range(call.TagKeys))
              => FieldsOf(i) = NestedCountFields

\* a leaf reached through a key, the sequence index 1 and a key is stored
C14_Witness ==
    \E i \in 1..Len(runs) :
        /\ WellTyped(call.v)
        /\ \A k \in KeysOf(call.v) : EndsPlain(k)
        /\ \E l \in KeptLeaves :
              /\ Len(l.chain) = 3
              /\ l.chain[2] = <<"1">>
              /\ FieldsOf(i)[ClaimedName(l.chain)] = l.val

(***************************************************************************)
(* C15.  A value of an unexpected type makes FlattenJSON and               *)
(* FullFlattenJSON return a non-nil error wherever it sits in the tree:    *)
(* directly, under nested objects, or as an element of a sequence.         *)
(* Fails: the loop over a sequence answers an element's error with         *)
(* "return nil", so the error of a value in a sequence is lost.            *)
(***************************************************************************)
\* C15: a run over a value holding a value of an unexpected type returns an error
C15_UnexpectedTypeIsAnError ==
    \A i \in 1..Len(runs) : ~WellTyped(call.v) => runs[i].err # "nil"

(***************************************************************************)
(* C16.  Flattening is deterministic: two runs over the same JSON value,   *)
(* tag keys and mode, each on a fresh JSONFlattener, leave identical       *)
(* field mappings, whatever order the members of each object are visited   *)
(* in.                                                                     *)
(* Fails as stated: when two kept leaves are given the same path, as in    *)
(* {"a":{"x":1},"a_x":2} with tag key "x", the leaf visited last wins, and *)
(* the order of the visit differs from run to run.  Holds when the kept    *)
(* leaves have distinct paths.                                             *)
(***************************************************************************)
\* C16 as stated: two runs over a JSON value leave the same fields and error
C16_Claimed_Deterministic ==
    (Len(runs) = 2 /\ WellTyped(call.v)) =>
        /\ runs[1].f.Fields = runs[2].f.Fields
        /\ runs[1].err = runs[2].err

\* no two kept leaves of the call's value have the same path
KeptPathsDistinct == \A l1, l2 \in KeptLeaves : l1.path = l2.path => l1 = l2

\* C16: two runs over a JSON value whose kept leaves have distinct paths leave the same fields and error
C16_DeterministicDistinctPaths ==
    (Len(runs) = 2 /\ WellTyped(call.v) /\ KeptPathsDistinct) =>
        /\ runs[1].f.Fields = runs[2].f.Fields
        /\ runs[1].err = runs[2].err

\* two runs over an object with kept leaves in two of its members
C16_Witness ==
    /\ Len(runs) = 2
    /\ WellTyped(call.v)
    /\ KeptPathsDistinct
    /\ call.v.t = "map"
    /\ \E l1, l2 \in KeptLeaves : l1.chain[1] # l2.chain[1]
    /\ Cardinality(DOMAIN FieldsOf(1)) >= 2
    /\ FieldsOf(1) = FieldsOf(2)

(***************************************************************************)
(* C17.  Two distinct leaves are written to the same field path only when  *)
(* a sequence index coincides with an object key on the other leaf's       *)
(* path; every other pair of distinct kept leaves has different paths, so  *)
(* that no field value is overwritten by another leaf.                     *)
(* Fails as stated: {"a":{"x":1},"a_x":2} has no sequence at all, and its  *)
(* two leaves are both written to a_x.  What makes two paths meet is an    *)
(* object key that is empty or holds an underscore; leaves whose keys are  *)
(* non-empty and free of underscores never share a path.                   *)
(***************************************************************************)
\* a sequence index on the way to l1 is spelled like an object key on the way to l2
IndexCoincides(l1, l2) ==
    \E i \in l1.idxs, j \in (1..Len(l2.chain)) \ l2.idxs : l1.chain[i] = l2.chain[j]

\* C17 as stated: two distinct kept leaves share a path only when an index coincides with a key
C17_Claimed_CollideOnlyOnIndex ==
    \A i \in 1..Len(runs) :
        WellTyped(call.v) =>
            \A l1, l2 \in KeptLeaves :
                (l1 # l2 /\ ~IndexCoincides(l1, l2) /\ ~IndexCoincides(l2, l1)) =>
                    /\ l1.path # l2.path
                    /\ l1.path \in DOMAIN FieldsOf(i)
                    /\ FieldsOf(i)[l1.path] = l1.val

\* every object key on the way to l is non-empty and free of underscores
PlainChain(l) ==
    \A j \in (1..Len(l.chain)) \ l.idxs : l.chain[j] # <<>> /\ ~HasUnderscore(l.chain[j])

\* C17: two distinct kept leaves whose keys are non-empty and free of underscores have different paths, and such a leaf is overwritten by no leaf of that kind
C17_CollideOnlyOnUnderscoreKeys ==
    \A i \in 1..Len(runs) :
        WellTyped(call.v) =>
            \A l1 \in { l \in KeptLeaves : PlainChain(l) } :
                /\ \A l2 \in { l \in KeptLeaves : PlainChain(l) } :
                       l1 # l2 => l1.path # l2.path
                /\ l1.path \in DOMAIN FieldsOf(i)
                /\ \/ FieldsOf(i)[l1.path] = l1.val
                   \/ \E l2 \in KeptLeaves :
                         /\ ~PlainChain(l2)
                         /\ l2.path = l1.path
                         /\ FieldsOf(i)[l1.path] = l2.val

\* two kept leaves under plain keys, one of them in a sequence, each with
\* its own entry
C17_Witness ==
    \E i \in 1..Len(runs) :
        /\ WellTyped(call.v)
        /\ \E l1, l2 \in KeptLeaves :
              /\ l1 # l2
              /\ PlainChain(l1) /\ PlainChain(l2)
              /\ l1.idxs # {}
              /\ FieldsOf(i)[l1.path] = l1.val
              /\ FieldsOf(i)[l2.path] = l2.val
        /\ Cardinality(DOMAIN FieldsOf(i)) = Cardinality(KeptLeaves)

(***************************************************************************)
(* C18.  For a JSON object without nested structure whose leaves are all   *)
(* numbers, parsed with an empty tag-key list, Parse returns exactly one   *)
(* metric whose fields mapping is empty but present (not nil) and whose    *)
(* tags are exactly the default tags.                                      *)
(* Fails as stated for a parser whose MetricName is empty: the metric is   *)
(* not constructed and Parse returns the construction error.  Holds when   *)
(* the construction succeeds.                                              *)
(***************************************************************************)
\* obj has members, and every one of them is a number
FlatNumeric(obj) == DOMAIN obj # {} /\ \A k \in DOMAIN obj : obj[k].t = "float64"

\* Parse has returned from a flat numeric object parsed with no tag keys
FlatNumericParsed ==
    /\ pc = "done"
    /\ path = "object"
    /\ ElemDone
    /\ TagKeys = <<>>
    /\ FlatNumeric(LastItem)

\* exactly one metric, with no field in a mapping that is not nil, and the default tags
OneBareMetric ==
    /\ ret.err = "nil"
    /\ ~ret.metrics.isNil
    /\ Len(ret.metrics.s) = 1
    /\ ret.metrics.s[1].fields = MakeMap
    /\ ret.metrics.s[1].tags = DefaultTags

Constructible ==
    /\ Len(MetricName) > 0
    /\ \A k \in DOMAIN DefaultTags : ~HasDisallowed(k) /\ ~HasDisallowed(DefaultTags[k])

RECURSIVE HasNil(_)
HasNil(v) ==
    CASE v.t = "map"   -> \E k \in DOMAIN v.v : HasNil(v.v[k])
      [] v.t = "slice" -> \E i \in 1..Len(v.v) : HasNil(v.v[i])
      [] OTHER         -> v.t = "nil"

\* C19: a run over a JSON value holding nulls returns no error, and its fields are the kept leaves, all of them, and nothing else
C19_NullLeafSkipped ==
    \A i \in 1..Len(runs) :
        (WellTyped(call.v) /\ HasNil(call.v)) =>
            /\ runs[i].err = "nil"
            /\ \A k \in DOMAIN FieldsOf(i) :
                  \E l \in KeptLeaves : l.path = k /\ l.val = FieldsOf(i)[k]
            /\ \A l \in KeptLeaves : l.path \in DOMAIN FieldsOf(i)

\* a sequence that starts with a null has its second element stored
C19_Witness ==
    \E i \in 1..Len(runs) :
        /\ WellTyped(call.v)
        /\ runs[i].err = "nil"
        /\ call.v.t = "slice"
        /\ Len(call.v.v) = 2
        /\ call.v.v[1] = JNil
        /\ <<"1">> \in DOMAIN FieldsOf(i)

RECURSIVE AfterLastUnderscore(_)
AfterLastUnderscore(s) ==
    IF ~HasUnderscore(s) THEN s
    ELSE AfterLastUnderscore(SubSeq(s, 1 + (CHOOSE i \in 1..Len(s) :
                                                /\ s[i] = "_"
                                                /\ \A j \in 1..(i - 1) : s[j] # "_"),
                                    Len(s)))

\* the leaves of the call's value whose own key is an object key that
\* contains an underscore
UnderscoreKeyLeaves ==
    { l \in KeyedLeaves(<<>>, {}, <<>>, call.v) :
        /\ l.chain # <<>>
        /\ Len(l.chain) \notin l.idxs
        /\ HasUnderscore(l.chain[Len(l.chain)]) }

\* the name ends with the segment t
EndsWithSegment(name, t) ==
    \/ name = t
    \/ /\ Len(name) > Len(t)
       /\ SubSeq(name, Len(name) - Len(t), Len(name)) = <<"_">> \o t

\* every entry of Fields is allow-listed by a tag key free of underscores
ListedByPlainTagKeys(i) ==
    \A k \in DOMAIN FieldsOf(i) :
        \E j \in 1..Len(call.TagKeys) :
            ~HasUnderscore(call.TagKeys[j]) /\ EndsWithSegment(k, call.TagKeys[j])

\* C27 as stated: in basic mode a leaf whose key contains an underscore is kept iff the part of the key after its last underscore is a tag key
C27_Claimed_KeyTailDecides ==
    \A i \in 1..Len(runs) :
        (call.fn = "FlattenJSON" /\ WellTyped(call.v)) =>
            /\ \A l \in UnderscoreKeyLeaves :
                  l.path \in DOMAIN FieldsOf(i)
                    <=> AfterLastUnderscore(l.chain[Len(l.chain)]) \in Range(call.TagKeys)
            /\ ListedByPlainTagKeys(i)

\* C27: in basic mode a leaf whose key contains an underscore and does not end with one is kept iff the part of the key after its last underscore is a tag key
C27_KeyTailDecidesUnlessTrailing ==
    \A i \in 1..Len(runs) :
        (call.fn = "FlattenJSON" /\ WellTyped(call.v)) =>
            /\ \A l \in UnderscoreKeyLeaves :
                  l.chain[Len(l.chain)][Len(l.chain[Len(l.chain)])] # "_" =>
                      (l.path \in DOMAIN FieldsOf(i)
                         <=> AfterLastUnderscore(l.chain[Len(l.chain)]) \in Range(call.TagKeys))
            /\ ListedByPlainTagKeys(i)

\* basic mode has kept the leaf of the key a_x, "x" being a tag key and
\* "a_x" not
C27_Witness ==
    /\ call.fn = "FlattenJSON"
    /\ call.v = ValueCollide
    /\ <<"x">> \in Range(call.TagKeys)
    /\ <<"a", "_", "x">> \notin Range(call.TagKeys)
    /\ \E i \in 1..Len(runs) : <<"a", "_", "x">> \in DOMAIN FieldsOf(i)

(***************************************************************************)
(* C30.  For a JSON value all of whose keys, at every depth, are non-empty *)
(* and contain no underscore, the mapping from kept leaves to field paths  *)
(* is injective: the fields mapping has exactly one entry per kept leaf,   *)
(* each under its own value, and it does not depend on the order in which *)
(* the members of the objects are visited.                                 *)
(***************************************************************************)
\* every key of the call's value is non-empty and free of underscores
AllKeysPlain == \A k \in KeysOf(call.v) : k # <<>> /\ ~HasUnderscore(k)

\* C30: with non-empty keys free of underscores the fields are the kept leaves, one entry each, the same in every run
C30_PlainKeysInjective ==
    (WellTyped(call.v) /\ AllKeysPlain) =>
        /\ \A i \in 1..Len(runs) :
              /\ Cardinality(DOMAIN FieldsOf(i)) = Cardinality(KeptLeaves)
              /\ \A l \in KeptLeaves :
                    l.path \in DOMAIN FieldsOf(i) /\ FieldsOf(i)[l.path] = l.val
        /\ \A i, j \in 1..Len(runs) : FieldsOf(i) = FieldsOf(j)

\* two runs over an object of plain keys with two kept leaves below its
\* top level
C30_Witness ==
    /\ Len(runs) = 2
    /\ call.v.t = "map"
    /\ WellTyped(call.v)
    /\ AllKeysPlain
    /\ Cardinality(KeptLeaves) = 2
    /\ \A l \in KeptLeaves : Len(l.chain) >= 2
    /\ Cardinality(DOMAIN FieldsOf(1)) = 2
    /\ FieldsOf(1) = FieldsOf(2)

(***************************************************************************)
(* ParseLine called on its own: SpecParseLine.                             *)
(***************************************************************************)
\* the lines handed to ParseLine: payloads of one line, the blank ones
\* among them
Lines == ObjectTexts \cup ArrayTexts \cup OtherTexts \cup {<<" ">>, <<" ", " ">>}

\* metric, err := p.ParseLine(line)
ParseLineCall(line) ==
    /\ ~lineCall.called
    /\ \E o \in ParseLine(p, line) :
          lineCall' = [called |-> TRUE, line |-> line, metric |-> o.metric, err |-> o.err]
    /\ UNCHANGED <<parserVars, flattenVars, gatherVars>>

\* the caller has the result
ParseLineReturn ==
    /\ lineCall.called
    /\ lineCall' = NoLine
    /\ UNCHANGED <<parserVars, flattenVars, gatherVars>>

LineNext ==
    \/ \E line \in Lines : ParseLineCall(line)
    \/ ParseLineReturn

SpecParseLine == Init /\ [][LineNext]_vars

\* C29: ParseLine(line) returns the first metric of a result of Parse on
\* the line together with the nil error, or, when Parse fails or yields no
\* metric, the nil metric together with an error that is not nil; it never
\* returns the nil metric with the nil error.
C29_ParseLineFirstMetricOrError ==
    lineCall.called =>
        /\ \E r \in ParseResults(p, lineCall.line) :
              \/ /\ r.err = "nil"
                 /\ Len(r.metrics.s) >= 1
                 /\ lineCall.metric = r.metrics.s[1]
                 /\ lineCall.err = "nil"
              \/ /\ r.err # "nil" \/ Len(r.metrics.s) = 0
                 /\ lineCall.metric = NilMetric
                 /\ lineCall.err # "nil"
        /\ ~(lineCall.metric = NilMetric /\ lineCall.err = "nil")

\* reached: an array of two objects gave two different metrics and
\* ParseLine returned the first of them
C29_Witness ==
    /\ lineCall.called
    /\ lineCall.err = "nil"
    /\ \E r \in ParseResults(p, lineCall.line) :
          /\ Len(r.metrics.s) = 2
          /\ r.metrics.s[1] # r.metrics.s[2]
          /\ lineCall.metric = r.metrics.s[1]

(***************************************************************************)
(* The input plugins that feed the parser: twitter, github, wordpress and  *)
(* youtube.  Gather launches goroutines, each of which fetches from a      *)
(* service, parses the answer and hands metrics and errors to the          *)
(* accumulator.  The services are the world: a function from a request to  *)
(* the answer it gets, fixed for the length of one Gather.                 *)
(***************************************************************************)
\* most pages a playlist is spread over
MaxPages == 2
\* most screen names a twitter plugin is configured with
MaxScreenNames == 2
\* most tweets a timeline answers with
MaxTweets == 2

\* strings.HasPrefix(s, prefix)
HasPrefix(s, prefix) ==
    Len(s) >= Len(prefix) /\ SubSeq(s, 1, Len(prefix)) = prefix

\* strings.HasSuffix(s, suffix)
HasSuffix(s, suffix) ==
    Len(s) >= Len(suffix) /\ SubSeq(s, Len(s) - Len(suffix) + 1, Len(s)) = suffix

\* strings.TrimPrefix(s, prefix)
TrimPrefix(s, prefix) ==
    IF HasPrefix(s, prefix) THEN SubSeq(s, Len(prefix) + 1, Len(s)) ELSE s

\* strings.TrimSuffix(s, suffix)
TrimSuffix(s, suffix) ==
    IF HasSuffix(s, suffix) THEN SubSeq(s, 1, Len(s) - Len(suffix)) ELSE s

\* strings.Replace(s, old, "", 1), for a non-empty old: the first occurrence
\* of old is cut out
ReplaceFirst(s, old) ==
    LET at == { j \in 1..Len(s) : HasPrefix(SubSeq(s, j, Len(s)), old) }
    IN  IF at = {} THEN s
        ELSE LET j == CHOOSE x \in at : \A z \in at : x <= z
             IN  SubSeq(s, 1, j - 1) \o SubSeq(s, j + Len(old), Len(s))

\* strconv.ParseFloat(s, 64), [err, v], on the strings the explored answers
\* hold: a decimal number of at most one fraction digit parses to its value,
\* a string that is no number is a syntax error
ParseFloat(s) ==
    LET r == DecNumber(s, 1)
    IN  IF r.ok /\ r.n = Len(s) + 1 THEN [err |-> "nil", v |-> r.v]
        ELSE [err |-> "strconv.ParseFloat: invalid syntax", v |-> JNum(0)]

\* acc.AddFields(name, fields, tags), called by goroutine i
AddFields(a, i, name, fields, tags) ==
    [a EXCEPT !.fields = Append(@, [task |-> i, name |-> name, tags |-> tags,
                                    fields |-> fields])]

\* acc.AddError(e), called by goroutine i; a nil error is a call too
AddError(a, i, e) ==
    [a EXCEPT !.errors = Append(@, [task |-> i, err |-> e])]

\* sendRequest(uri): the body and the error; a uri the service does not
\* know is answered with a status other than 200
sendRequest(w, uri) ==
    IF uri \in DOMAIN w THEN w[uri]
    ELSE [err |-> "status code 404", body |-> <<>>]

\* parsers.NewJSONLiteParser(name, tagKeys, tags)
NewJSONLiteParser(name, tagKeys, tags) ==
    [MetricName |-> name, TagKeys |-> tagKeys, DefaultTags |-> tags]

\* fields := make(map[string]interface{}); for k, v := range metric.Fields()
\* { fields[k] = v }
CopyFields(metric) == metric.fields.m

\* no parser built yet, nothing parsed yet
NoParser == [MetricName |-> <<>>, TagKeys |-> <<>>, DefaultTags |-> EmptyMap]

\* a goroutine that Gather has just launched: where it stands (pc), the
\* argument it was launched with, the tweets still to handle, what its
\* gatherer returns, and the locals of the gatherer: the parser, the body
\* to parse, what Parse returned, where to go on after Parse, and the
\* calls of gatherPlaylist in progress
NewTask(arg) ==
    [pc |-> "ready", arg |-> arg, rest |-> <<>>, ret |-> "nil", responseTime |-> JNum(0),
     parser |-> NoParser, body |-> <<>>, parsed |-> [metrics |-> NilSlice, err |-> "nil"],
     after |-> "none", stack |-> <<>>]

\* goroutine i: metrics, err := parser.Parse([]byte(resp)), in any of the
\* jsonlite gatherers
TaskParse(i) ==
    /\ tasks[i].pc = "parse"
    /\ \E r \in ParseResults(tasks[i].parser, tasks[i].body) :
          tasks' = [tasks EXCEPT ![i].parsed = r, ![i].pc = tasks[i].after]
    /\ UNCHANGED <<plugin, world, client, gpc, wg, accumulator, reqs, gret>>
    /\ UNCHANGED <<parserVars, flattenVars, lineVars>>

\* wg.Wait() returning at once, whatever the counter
WaitPassesAlways(counter) == TRUE

\* wg.Wait() returns when the counter is zero
WaitPasses(counter) == counter = 0

(***************************************************************************)
(* youtube: gatherPlaylist.  What a call or a loop ends with is the error  *)
(* returned ("nil" for none), "continue" inside a loop, or the panic that  *)
(* ended the program.                                                      *)
(***************************************************************************)
PanicIndex == "panic: index out of range"

PanicConversion == "panic: interface conversion"

IsPanic(r) == r \in {PanicIndex, PanicConversion}

\* "&key="
AmpKey == <<"&", "k", "e", "y", "=">>

\* "&pageToken="
AmpPageToken == <<"&", "p", "a", "g", "e", "T", "o", "k", "e", "n", "=">>

\* "&id="
AmpId == <<"&", "i", "d", "=">>

\* "nextPageToken"
NextPageToken == <<"n", "e", "x", "t", "P", "a", "g", "e", "T", "o", "k", "e", "n">>

\* "_videoId"
VideoIdSuffix == <<"_", "v", "i", "d", "e", "o", "I", "d">>

\* "Count"
CountSuffix == <<"C", "o", "u", "n", "t">>

\* "items_0_"
ItemsPrefix == <<"i", "t", "e", "m", "s", "_", "0", "_">>

\* "youtube"
YouTubeName == <<"y", "o", "u", "t", "u", "b", "e">>

\* "id"
IdTag == <<"i", "d">>

\* the fields maps the loop over vMetric.Fields() may build, [ret, fields]:
\* a key ending in "Count" holds a string that is parsed to a number; a
\* value of another type there ends the program, a string that is no
\* number ends the call; which of several such keys is met first is the
\* map's choice, as is the winner among keys the cut makes equal
VideoFields(vMetric) ==
    LET m       == vMetric.fields.m
        key(k)  == ReplaceFirst(k, ItemsPrefix)
        counts  == { k \in DOMAIN m : HasSuffix(key(k), CountSuffix) }
        wrong   == { k \in counts : m[k].t # "string" }
        noNum   == { k \in counts \ wrong : ParseFloat(m[k].s).err # "nil" }
        val(k)  == IF k \in counts THEN ParseFloat(m[k].s).v ELSE m[k]
        newKeys == { key(k) : k \in DOMAIN m }
    IN  { [ret |-> PanicConversion, fields |-> EmptyMap] : k \in wrong }
        \cup { [ret |-> ParseFloat(m[k].s).err, fields |-> EmptyMap] : k \in noNum }
        \cup IF wrong = {} /\ noNum = {}
             THEN { [ret |-> "nil", fields |-> f] :
                      f \in { g \in [newKeys -> { val(k) : k \in DOMAIN m }] :
                                \A nk \in newKeys :
                                   \E k \in DOMAIN m : key(k) = nk /\ g[nk] = val(k) } }
             ELSE {}

\* for _, vMetric := range video, from video[j] on
\* [acc, ret]: the accumulator after the loop and "continue", or what ended
\* the loop early
RECURSIVE VideoRange(_, _, _, _, _)
VideoRange(i, a, video, j, videoId) ==
    IF j > Len(video) THEN {[acc |-> a, ret |-> "continue"]}
    ELSE UNION { IF o.ret # "nil" THEN {[acc |-> a, ret |-> o.ret]}
                 ELSE VideoRange(i,
                                 AddFields(a, i, video[j].name, o.fields,
                                           MapSet(video[j].tags, IdTag, videoId)),
                                 video, j + 1, videoId)
               : o \in VideoFields(video[j]) }

\* the JSON string literal of s
Quoted(s) == <<"\"">> \o s \o <<"\"">>

\* the fields of a YouTube set in its configuration
PlaylistItemsURI == <<"P">>

VideoStatisticsURI == <<"V">>

ApiKey == <<"K">>

\* the uri of the playlist page under a page token, of a video's statistics
PageURI(pageToken) ==
    IF pageToken = <<>> THEN PlaylistItemsURI \o AmpKey \o ApiKey
    ELSE PlaylistItemsURI \o AmpKey \o ApiKey \o AmpPageToken \o pageToken

VideoURI(videoId) == VideoStatisticsURI \o AmpId \o videoId \o AmpKey \o ApiKey

\* {"items":[{"id":{"videoId":VID}}]}, with "KEY":TOK, put first when key
\* is not empty
PageBody(key, tok, vid) ==
    <<"{">> \o (IF key = <<>> THEN <<>> ELSE Quoted(key) \o <<":">> \o tok \o <<",">>)
    \o <<"\"", "i", "t", "e", "m", "s", "\"", ":", "[", "{", "\"", "i", "d", "\"", ":", "{", "\"", "v", "i", "d", "e", "o", "I", "d", "\"", ":">> \o vid \o <<"}", "}", "]", "}">>

\* {"items":[{"statistics":{"viewCount":COUNT}}]}
StatsBody(count) ==
    <<"{", "\"", "i", "t", "e", "m", "s", "\"", ":", "[", "{", "\"", "s", "t", "a", "t", "i", "s", "t", "i", "c", "s", "\"", ":", "{", "\"", "v", "i", "e", "w", "C", "o", "u", "n", "t", "\"", ":">> \o count \o <<"}", "}", "]", "}">>

Answer(body) == [err |-> "nil", body |-> body]

\* the token of page j of a playlist: none for the first page
PageToken(j) == IF j = 1 THEN <<>> ELSE Itoa(j)

\* the id of the video listed on page j
VideoIdOf(j) == <<"v">> \o Itoa(j)

\* a playlist of n pages, page j naming page j + 1 under key; vids tells
\* whether the video ids are strings, count is the text of the view count
RECURSIVE PlaylistWorld(_, _, _, _, _)
PlaylistWorld(j, n, key, vids, count) ==
    IF j > n THEN EmptyMap
    ELSE MapSet(MapSet(PlaylistWorld(j + 1, n, key, vids, count),
                       PageURI(PageToken(j)),
                       Answer(PageBody(IF j < n THEN key ELSE <<>>,
                                       Quoted(PageToken(j + 1)),
                                       IF vids THEN Quoted(VideoIdOf(j)) ELSE Itoa(j)))),
                VideoURI(VideoIdOf(j)), Answer(StatsBody(count)))

\* "nextPageToken_": a key the flattener trims to "nextPageToken"
NextPageTokenTrailing == NextPageToken \o <<"_">>

CountTexts == {Quoted(<<"1", "2">>), Quoted(<<"x">>), <<"1", "2">>}

\* a first page that lists nothing: an empty body, blanks, an empty array,
\* an array whose object has a tag metric.New refuses, a truncated object,
\* a page token that is a number; and a request that fails
FirstPageAnswers ==
    { Answer(<<>>), Answer(<<" ", "\n">>), Answer(<<"[", "]">>),
      Answer(ArrayText(<<TextBadTag>>)), Answer(TextTruncObject),
      Answer(PageBody(NextPageToken, <<"5">>, Quoted(VideoIdOf(1)))),
      Answer(PageBody(NextPageTokenTrailing, <<"5">>, Quoted(VideoIdOf(1)))),
      [err |-> "timeout", body |-> <<>>] }

YouTubeWorlds ==
    { PlaylistWorld(1, n, key, vids, count) :
        n \in 1..MaxPages, key \in {NextPageToken, NextPageTokenTrailing},
        vids \in BOOLEAN, count \in CountTexts }
    \cup { MapSet(EmptyMap, PageURI(<<>>), a) : a \in FirstPageAnswers }

\* "videoId"
VideoIdKey == <<"v", "i", "d", "e", "o", "I", "d">>

\* "viewCount"
ViewCountKey == <<"v", "i", "e", "w", "C", "o", "u", "n", "t">>

\* the tag_keys of a youtube configuration: with the page token listed,
\* without it, and with none of the keys the answers hold
YouTubeTagKeys ==
    { <<VideoIdKey, ViewCountKey, NextPageToken>>, <<VideoIdKey, ViewCountKey>>, << <<"t">> >> }

YouTubePlugins ==
    { [kind |-> "youtube", PlaylistItemsURI |-> PlaylistItemsURI,
       VideoStatisticsURI |-> VideoStatisticsURI, ApiKey |-> ApiKey, TagKeys |-> tk]
      : tk \in YouTubeTagKeys }

(***************************************************************************)
(* Gather of the youtube plugin.  The goroutine runs gatherPlaylist, which *)
(* calls itself for the next page: tasks[1].stack holds the calls in       *)
(* progress, the innermost last, each with its page token, the fields of   *)
(* the page and the keys the range over them has still to visit.           *)
(***************************************************************************)
Frame(pageToken) == [pageToken |-> pageToken, fields |-> EmptyMap, todo |-> {}, videoId |-> <<>>]

Top(t) == t.stack[Len(t.stack)]

SetTop(t, f) == [t EXCEPT !.stack[Len(t.stack)] = f]

\* a panic in a goroutine ends the program
Crash(t, panic) == [t EXCEPT !.pc = "panicked", !.ret = panic]

\* Gather up to wg.Wait(): the client is set when there is none, the one
\* goroutine is launched with gatherPlaylist(acc, "")
YouTubeGather ==
    /\ plugin.kind = "youtube"
    /\ gpc = "idle"
    /\ client' = "set"
    /\ wg' = wg + 1
    /\ tasks' = Append(tasks, [NewTask(<<>>) EXCEPT !.stack = <<Frame(<<>>)>>])
    /\ gpc' = "wait"
    /\ UNCHANGED <<plugin, world, accumulator, reqs, gret>>
    /\ UNCHANGED <<parserVars, flattenVars, lineVars>>

\* gatherPlaylist up to parser.Parse: the page is requested and the parser
\* built
YouTubeRequestPage ==
    /\ plugin.kind = "youtube"
    /\ tasks # <<>>
    /\ tasks[1].pc = "ready"
    /\ LET t    == tasks[1]
           uri  == PageURI(Top(t).pageToken)
           resp == sendRequest(world, uri)
       IN  /\ reqs' = Append(reqs, [task |-> 1, uri |-> uri])
           /\ tasks' = [tasks EXCEPT ![1] =
                  IF resp.err # "nil"
                  THEN [t EXCEPT !.pc = "return", !.ret = resp.err]
                  ELSE [t EXCEPT !.pc = "parse", !.after = "page", !.body = resp.body,
                                 !.parser = NewJSONLiteParser(YouTubeName, plugin.TagKeys, EmptyMap)]]
    /\ UNCHANGED <<plugin, world, client, gpc, wg, accumulator, gret>>
    /\ UNCHANGED <<parserVars, flattenVars, lineVars>>

\* after Parse of the page: playlistItemsFields := playlistItemsMetrics[0].Fields()
YouTubePage ==
    /\ plugin.kind = "youtube"
    /\ tasks # <<>>
    /\ tasks[1].pc = "page"
    /\ LET t == tasks[1]
           r == t.parsed
       IN  IF r.err # "nil"
           THEN /\ tasks' = [tasks EXCEPT ![1] = [t EXCEPT !.pc = "return", !.ret = r.err]]
                /\ UNCHANGED gpc
           ELSE IF Len(r.metrics.s) = 0
           THEN /\ tasks' = [tasks EXCEPT ![1] = Crash(t, PanicIndex)]
                /\ gpc' = "crashed"
           ELSE /\ tasks' = [tasks EXCEPT ![1] =
                       [SetTop(t, [Top(t) EXCEPT !.fields = CopyFields(r.metrics.s[1]),
                                                 !.todo = DOMAIN CopyFields(r.metrics.s[1])])
                        EXCEPT !.pc = "loop"]]
                /\ UNCHANGED gpc
    /\ UNCHANGED <<plugin, world, client, wg, accumulator, reqs, gret>>
    /\ UNCHANGED <<parserVars, flattenVars, lineVars>>

\* one round of for k, playlistItem := range playlistItemsFields, up to the
\* recursive call or to parser.Parse of the video statistics; the range
\* visits the keys in any order
YouTubeRound ==
    /\ plugin.kind = "youtube"
    /\ tasks # <<>>
    /\ tasks[1].pc = "loop"
    /\ LET t == tasks[1]
           f == Top(t)
       IN  IF f.todo = {}
           THEN /\ tasks' = [tasks EXCEPT ![1] = [t EXCEPT !.pc = "return", !.ret = "nil"]]
                /\ UNCHANGED <<gpc, reqs>>
           ELSE \E k \in f.todo :
                  LET item == f.fields[k]
                      u    == SetTop(t, [f EXCEPT !.todo = @ \ {k}])
                  IN  IF k = NextPageToken
                      THEN IF item.t # "string"
                           THEN /\ tasks' = [tasks EXCEPT ![1] = Crash(u, PanicConversion)]
                                /\ gpc' = "crashed"
                                /\ UNCHANGED reqs
                           ELSE /\ tasks' = [tasks EXCEPT ![1] =
                                       [u EXCEPT !.stack = Append(@, Frame(item.s)),
                                                 !.pc = "ready"]]
                                /\ UNCHANGED <<gpc, reqs>>
                      ELSE IF ~ HasSuffix(k, VideoIdSuffix)
                      THEN /\ tasks' = [tasks EXCEPT ![1] = u]
                           /\ UNCHANGED <<gpc, reqs>>
                      ELSE IF item.t # "string"
                      THEN /\ tasks' = [tasks EXCEPT ![1] = Crash(u, PanicConversion)]
                           /\ gpc' = "crashed"
                           /\ UNCHANGED reqs
                      ELSE LET uri  == VideoURI(item.s)
                               resp == sendRequest(world, uri)
                           IN  /\ reqs' = Append(reqs, [task |-> 1, uri |-> uri])
                               /\ tasks' = [tasks EXCEPT ![1] =
                                      IF resp.err # "nil"
                                      THEN [u EXCEPT !.pc = "return", !.ret = resp.err]
                                      ELSE [SetTop(u, [Top(u) EXCEPT !.videoId = item.s])
                                            EXCEPT !.pc = "parse", !.after = "video",
                                                   !.body = resp.body]]
                               /\ UNCHANGED gpc
    /\ UNCHANGED <<plugin, world, client, wg, accumulator, gret>>
    /\ UNCHANGED <<parserVars, flattenVars, lineVars>>

\* after Parse of the video statistics: the loop over vMetrics
YouTubeVideo ==
    /\ plugin.kind = "youtube"
    /\ tasks # <<>>
    /\ tasks[1].pc = "video"
    /\ LET t == tasks[1]
           r == t.parsed
       IN  IF r.err # "nil"
           THEN /\ tasks' = [tasks EXCEPT ![1] = [t EXCEPT !.pc = "return", !.ret = r.err]]
                /\ UNCHANGED <<gpc, accumulator>>
           ELSE \E o \in VideoRange(1, accumulator, r.metrics.s, 1, Top(t).videoId) :
                  /\ accumulator' = o.acc
                  /\ IF IsPanic(o.ret)
                     THEN /\ tasks' = [tasks EXCEPT ![1] = Crash(t, o.ret)]
                          /\ gpc' = "crashed"
                     ELSE /\ tasks' = [tasks EXCEPT ![1] =
                                 IF o.ret = "continue" THEN [t EXCEPT !.pc = "loop"]
                                 ELSE [t EXCEPT !.pc = "return", !.ret = o.ret]]
                          /\ UNCHANGED gpc
    /\ UNCHANGED <<plugin, world, client, wg, reqs, gret>>
    /\ UNCHANGED <<parserVars, flattenVars, lineVars>>

\* gatherPlaylist returns: to the call for the page before, which hands the
\* result to acc.AddError and goes on with its range (the key it is at is
\* nextPageToken, which does not end in _videoId), or to the goroutine,
\* which hands it to acc.AddError and is done
YouTubeReturn ==
    /\ plugin.kind = "youtube"
    /\ tasks # <<>>
    /\ tasks[1].pc = "return"
    /\ LET t == tasks[1]
       IN  /\ accumulator' = AddError(accumulator, 1, t.ret)
           /\ IF Len(t.stack) > 1
              THEN /\ tasks' = [tasks EXCEPT ![1] =
                          [t EXCEPT !.stack = SubSeq(@, 1, Len(@) - 1), !.pc = "loop",
                                    !.ret = "nil"]]
                   /\ UNCHANGED wg
              ELSE /\ tasks' = [tasks EXCEPT ![1] = [t EXCEPT !.stack = <<>>, !.pc = "done"]]
                   /\ wg' = wg - 1
    /\ UNCHANGED <<plugin, world, client, gpc, reqs, gret>>
    /\ UNCHANGED <<parserVars, flattenVars, lineVars>>

\* wg.Wait() has returned: return nil
GatherReturn ==
    /\ gpc = "wait"
    /\ WaitPasses(wg)
    /\ gpc' = "returned"
    /\ gret' = "nil"
    /\ UNCHANGED <<plugin, world, client, wg, tasks, accumulator, reqs>>
    /\ UNCHANGED <<parserVars, flattenVars, lineVars>>

(***************************************************************************)
(* twitter: Gather launches one goroutine per screen name, each running    *)
(* gatherTimeline.  The parser NewJSONParser builds is not among the       *)
(* sources: a tweet is held as what that parser makes of it, its numeric   *)
(* fields or a failure.                                                    *)
(***************************************************************************)
\* "twitter"
TwitterName == <<"t", "w", "i", "t", "t", "e", "r">>

\* "screen_name"
ScreenNameTag == <<"s", "c", "r", "e", "e", "n", "_", "n", "a", "m", "e">>

\* "response_time"
ResponseTimeField == <<"r", "e", "s", "p", "o", "n", "s", "e", "_", "t", "i", "m", "e">>

\* msrmnt_name of gatherTimeline
TwitterMeasurement(name) ==
    IF name = <<>> THEN TwitterName ELSE TwitterName \o <<"_">> \o name

\* parsers.NewJSONParser(name, tagKeys, tags)
NewJSONParser(name, tagKeys, tags) ==
    [MetricName |-> name, TagKeys |-> tagKeys, DefaultTags |-> tags]

\* Parse of that parser on the bytes of one tweet: one metric of the
\* parser's name and default tags with the tweet's numeric fields, or an
\* error
JSONParserParse(parser, tweet) ==
    IF tweet.ok
    THEN [metrics |-> << [name   |-> parser.MetricName,
                          tags   |-> parser.DefaultTags,
                          fields |-> [isNil |-> FALSE, m |-> tweet.num]] >>,
          err |-> "nil"]
    ELSE [metrics |-> <<>>, err |-> "unable to parse out as JSON"]

\* the screen name a goroutine works on when the loop variable is shared
\* with it instead of passed: the name of the goroutine launched last
LoopVariable(task, names, launched) == names[launched]

\* the screen name a goroutine works on: the argument it was launched with
TaskScreenName(task, names, launched) == task.arg

\* t.showTimeline(screenName): [tweets, responseTime, err]
showTimeline(w, screenName) ==
    IF w[screenName].err # "nil"
    THEN [tweets |-> <<>>, responseTime |-> JNum(-10), err |-> "Invalid screen name"]
    ELSE [tweets |-> w[screenName].tweets, responseTime |-> w[screenName].responseTime,
          err |-> "nil"]

\* the rounds of "for _, metric := range metrics" on the metrics of one tweet
RECURSIVE AddTweetMetrics(_, _, _, _, _)
AddTweetMetrics(a, i, ms, j, responseTime) ==
    IF j > Len(ms) THEN a
    ELSE AddTweetMetrics(AddFields(a, i, ms[j].name,
                                   MapSet(CopyFields(ms[j]), ResponseTimeField, responseTime),
                                   ms[j].tags),
                         i, ms, j + 1, responseTime)

\* the tweets a timeline may answer with: n tweets, the last of which the
\* parser refuses when bad
Tweet(j, ok) == [ok |-> ok, num |-> MapSet(EmptyMap, <<"i", "d">>, JNum(10 * j))]

Timeline(n, bad) == [j \in 1..n |-> Tweet(j, ~(bad /\ j = n))]

TimelineAnswers ==
    { [err |-> "nil", tweets |-> Timeline(n, bad), responseTime |-> JNum(10)] :
        n \in {0, MaxTweets}, bad \in BOOLEAN }
    \cup { [err |-> "rate limit", tweets |-> <<>>, responseTime |-> JNum(0)] }

\* the screen names of a configuration: the first n of "1", "2", ...
ScreenNamesOf(n) == [j \in 1..n |-> Itoa(j)]

TwitterPlugins ==
    { [kind |-> "twitter", Name |-> name, TagKeys |-> << ScreenNameTag >>,
       ScreenNames |-> ScreenNamesOf(n)]
      : name \in {<<>>, <<"n">>}, n \in 0..MaxScreenNames }

\* the worlds that answer the screen names of the plugin pl
TwitterWorlds(pl) == [ Range(pl.ScreenNames) -> TimelineAnswers ]

\* Gather up to the loop over t.ScreenNames: the client is set when there
\* is none
TwitterGather ==
    /\ plugin.kind = "twitter"
    /\ gpc = "idle"
    /\ client' = "set"
    /\ gpc' = IF Len(plugin.ScreenNames) = 0 THEN "wait" ELSE "launch"
    /\ UNCHANGED <<plugin, world, wg, tasks, accumulator, reqs, gret>>
    /\ UNCHANGED <<parserVars, flattenVars, lineVars>>

\* one round of the loop: wg.Add(1); go func(screenname string) {...}(screenname)
TwitterLaunch ==
    /\ plugin.kind = "twitter"
    /\ gpc = "launch"
    /\ wg' = wg + 1
    /\ tasks' = Append(tasks, NewTask(plugin.ScreenNames[Len(tasks) + 1]))
    /\ gpc' = IF Len(tasks') = Len(plugin.ScreenNames) THEN "wait" ELSE "launch"
    /\ UNCHANGED <<plugin, world, client, accumulator, reqs, gret>>
    /\ UNCHANGED <<parserVars, flattenVars, lineVars>>

\* goroutine i, gatherTimeline up to the loop over the tweets
TwitterShowTimeline(i) ==
    /\ plugin.kind = "twitter"
    /\ tasks[i].pc = "ready"
    /\ LET screenName == TaskScreenName(tasks[i], plugin.ScreenNames, Len(tasks))
           r          == showTimeline(world, screenName)
       IN  /\ reqs' = Append(reqs, [task |-> i, uri |-> screenName])
           /\ tasks' = [tasks EXCEPT ![i] =
                 [@ EXCEPT !.pc   = IF r.err # "nil" \/ r.tweets = <<>> THEN "ret" ELSE "tweets",
                           !.arg  = screenName,
                           !.rest = r.tweets,
                           !.ret  = r.err,
                           !.responseTime = r.responseTime]]
    /\ UNCHANGED <<plugin, world, client, gpc, wg, accumulator, gret>>
    /\ UNCHANGED <<parserVars, flattenVars, lineVars>>

\* goroutine i, one round of "for _, tweet := range tweets"
TwitterTweet(i) ==
    /\ plugin.kind = "twitter"
    /\ tasks[i].pc = "tweets"
    /\ LET parser == NewJSONParser(TwitterMeasurement(plugin.Name), plugin.TagKeys,
                                   MapSet(EmptyMap, ScreenNameTag, tasks[i].arg))
           r      == JSONParserParse(parser, Head(tasks[i].rest))
       IN  IF r.err # "nil"
           THEN /\ tasks' = [tasks EXCEPT ![i].pc = "ret", ![i].ret = r.err]
                /\ UNCHANGED accumulator
           ELSE /\ accumulator' = AddTweetMetrics(accumulator, i, r.metrics, 1,
                                                  tasks[i].responseTime)
                /\ tasks' = [tasks EXCEPT ![i].rest = Tail(@),
                                          ![i].pc = IF Len(tasks[i].rest) = 1
                                                    THEN "ret" ELSE "tweets"]
    /\ UNCHANGED <<plugin, world, client, gpc, wg, reqs, gret>>
    /\ UNCHANGED <<parserVars, flattenVars, lineVars>>

\* goroutine i: acc.AddError(what gatherTimeline returned), then the
\* deferred wg.Done()
TwitterTaskEnd(i) ==
    /\ plugin.kind = "twitter"
    /\ tasks[i].pc = "ret"
    /\ accumulator' = AddError(accumulator, i, tasks[i].ret)
    /\ wg' = wg - 1
    /\ tasks' = [tasks EXCEPT ![i].pc = "done"]
    /\ UNCHANGED <<plugin, world, client, gpc, reqs, gret>>
    /\ UNCHANGED <<parserVars, flattenVars, lineVars>>

(***************************************************************************)
(* github and wordpress: one goroutine each, which fetches, parses with a  *)
(* jsonlite parser and adds every metric.                                  *)
(***************************************************************************)
\* for _, metric := range metrics { copy the fields; metric.AddTag for the
\* extra tags; acc.AddFields(...) }, from metrics[j] on
RECURSIVE AddMetrics(_, _, _, _, _)
AddMetrics(a, i, ms, j, extra) ==
    IF j > Len(ms) THEN a
    ELSE AddMetrics(AddFields(a, i, ms[j].name, CopyFields(ms[j]),
                              [x \in (DOMAIN ms[j].tags) \cup (DOMAIN extra) |->
                                  IF x \in DOMAIN extra THEN extra[x] ELSE ms[j].tags[x]]),
                    i, ms, j + 1, extra)

\* what a gatherer does with what Parse returned, and what the goroutine
\* does with what the gatherer returns: the error goes to acc.AddError, or
\* every metric is added and nil goes to acc.AddError
AddParsed(a, i, r, extra) ==
    IF r.err # "nil" THEN AddError(a, i, r.err)
    ELSE AddError(AddMetrics(a, i, r.metrics.s, 1, extra), i, "nil")

\* "github"
GithubName == <<"g", "i", "t", "h", "u", "b">>

\* "wordpress"
WordpressName == <<"w", "o", "r", "d", "p", "r", "e", "s", "s">>

\* {"top-posts":
TopPostsPrefix == <<"{", "\"", "t", "o", "p", "-", "p", "o", "s", "t", "s", "\"", ":">>

\* "api", "top-posts", "summary"
ApiTag == <<"a", "p", "i">>

TopPostsApi == <<"t", "o", "p", "-", "p", "o", "s", "t", "s">>

SummaryApi == <<"s", "u", "m", "m", "a", "r", "y">>

\* msrmnt_name of the wordpress gatherers
WordpressMeasurement(name) ==
    IF name = <<>> THEN WordpressName ELSE WordpressName \o <<"_">> \o name

\* the answers a stats endpoint may give: objects, an array, a blank body,
\* a truncated one, a failed request
StatsAnswers ==
    { Answer(t) : t \in {TextNumTag, TextCollide, ArrayText(<<TextNumTag, TextTagNested>>),
                         <<>>, TextTruncObject} }
    \cup { [err |-> "timeout", body |-> <<>>] }

\* the top-posts answers: an array of posts in its envelope, and the same
\* without the envelope
TopPostsAnswers ==
    { Answer(TopPostsPrefix \o ArrayText(<<TextNumTag, TextTagNested>>) \o <<"}">>),
      Answer(ArrayText(<<TextNumTag>>)),
      [err |-> "timeout", body |-> <<>>] }

StatsTagKeys == { <<>>, << <<"x">> >>, << <<"t">>, <<"x">> >> }

GithubPlugins ==
    { [kind |-> "github", StatsURI |-> <<"S">>, TagKeys |-> tk] : tk \in StatsTagKeys }

GithubWorlds == { MapSet(EmptyMap, <<"S">>, a) : a \in StatsAnswers }

\* SSL is whether internal.GetTLSConfig accepts the configured files
WordpressPlugins ==
    { [kind |-> "wordpress", Name |-> name, TopPostsStatsURI |-> <<"T">>,
       SummaryStatsURI |-> <<"S">>, TopPostsTagKeys |-> tk, SummaryStatsTagKeys |-> <<>>,
       SSL |-> ssl]
      : name \in {<<>>, <<"n">>}, tk \in { <<>>, << <<"t">>, <<"x">> >> },
        ssl \in {"ok", "bad"} }

WordpressWorlds ==
    { MapSet(MapSet(EmptyMap, <<"T">>, a), <<"S">>, b) :
        a \in TopPostsAnswers, b \in StatsAnswers }

\* Gather of the github plugin up to wg.Wait()
GithubGather ==
    /\ plugin.kind = "github"
    /\ gpc = "idle"
    /\ client' = "set"
    /\ wg' = wg + 1
    /\ tasks' = Append(tasks, NewTask(<<>>))
    /\ gpc' = "wait"
    /\ UNCHANGED <<plugin, world, accumulator, reqs, gret>>
    /\ UNCHANGED <<parserVars, flattenVars, lineVars>>

\* the goroutine, gatherTopStats up to parser.Parse: the request is sent and
\* the parser built; a failed request is returned, handed to acc.AddError,
\* and the deferred wg.Done() runs
GithubRequest ==
    /\ plugin.kind = "github"
    /\ tasks # <<>>
    /\ tasks[1].pc = "ready"
    /\ LET t    == tasks[1]
           resp == sendRequest(world, plugin.StatsURI)
       IN  /\ reqs' = Append(reqs, [task |-> 1, uri |-> plugin.StatsURI])
           /\ IF resp.err # "nil"
              THEN /\ accumulator' = AddError(accumulator, 1, resp.err)
                   /\ tasks' = [tasks EXCEPT ![1] = [t EXCEPT !.pc = "done", !.ret = resp.err]]
                   /\ wg' = wg - 1
              ELSE /\ tasks' = [tasks EXCEPT ![1] =
                          [t EXCEPT !.pc = "parse", !.after = "add", !.body = resp.body,
                                    !.parser = NewJSONLiteParser(GithubName, plugin.TagKeys,
                                                                 EmptyMap)]]
                   /\ UNCHANGED <<accumulator, wg>>
    /\ UNCHANGED <<plugin, world, client, gpc, gret>>
    /\ UNCHANGED <<parserVars, flattenVars, lineVars>>

\* the goroutine, gatherTopStats after parser.Parse, acc.AddError of what it
\* returns and the deferred wg.Done()
GithubAdd ==
    /\ plugin.kind = "github"
    /\ tasks # <<>>
    /\ tasks[1].pc = "add"
    /\ accumulator' = AddParsed(accumulator, 1, tasks[1].parsed, EmptyMap)
    /\ tasks' = [tasks EXCEPT ![1].pc = "done", ![1].ret = tasks[1].parsed.err]
    /\ wg' = wg - 1
    /\ UNCHANGED <<plugin, world, client, gpc, reqs, gret>>
    /\ UNCHANGED <<parserVars, flattenVars, lineVars>>

\* Gather of the wordpress plugin up to wg.Wait(), or to "return err" when
\* there is no client yet and the TLS configuration is refused
WordpressGather ==
    /\ plugin.kind = "wordpress"
    /\ gpc = "idle"
    /\ IF client = "nil" /\ plugin.SSL = "bad"
       THEN /\ gpc' = "returned"
            /\ gret' = "tls"
            /\ UNCHANGED <<client, wg, tasks>>
       ELSE /\ client' = "set"
            /\ wg' = wg + 1
            /\ tasks' = Append(tasks, NewTask(<<>>))
            /\ gpc' = "wait"
            /\ UNCHANGED gret
    /\ UNCHANGED <<plugin, world, accumulator, reqs>>
    /\ UNCHANGED <<parserVars, flattenVars, lineVars>>

\* the goroutine, first statement, acc.AddError(w.gatherTopPostsStats(acc)),
\* up to parser.Parse: the envelope is trimmed off the body; a failed
\* request is returned and handed to acc.AddError
WordpressTopPostsRequest ==
    /\ plugin.kind = "wordpress"
    /\ tasks # <<>>
    /\ tasks[1].pc = "ready"
    /\ LET t    == tasks[1]
           resp == sendRequest(world, plugin.TopPostsStatsURI)
       IN  /\ reqs' = Append(reqs, [task |-> 1, uri |-> plugin.TopPostsStatsURI])
           /\ IF resp.err # "nil"
              THEN /\ accumulator' = AddError(accumulator, 1, resp.err)
                   /\ tasks' = [tasks EXCEPT ![1] = [t EXCEPT !.pc = "summary", !.ret = resp.err]]
              ELSE /\ tasks' = [tasks EXCEPT ![1] =
                          [t EXCEPT !.pc = "parse", !.after = "topposts",
                                    !.body = TrimSuffix(TrimPrefix(resp.body, TopPostsPrefix),
                                                        <<"}">>),
                                    !.parser = NewJSONLiteParser(WordpressMeasurement(plugin.Name),
                                                                 plugin.TopPostsTagKeys,
                                                                 EmptyMap)]]
                   /\ UNCHANGED accumulator
    /\ UNCHANGED <<plugin, world, client, gpc, wg, gret>>
    /\ UNCHANGED <<parserVars, flattenVars, lineVars>>

\* gatherTopPostsStats after parser.Parse, and acc.AddError of what it
\* returns
WordpressTopPostsAdd ==
    /\ plugin.kind = "wordpress"
    /\ tasks # <<>>
    /\ tasks[1].pc = "topposts"
    /\ accumulator' = AddParsed(accumulator, 1, tasks[1].parsed,
                                MapSet(EmptyMap, ApiTag, TopPostsApi))
    /\ tasks' = [tasks EXCEPT ![1].pc = "summary", ![1].ret = tasks[1].parsed.err]
    /\ UNCHANGED <<plugin, world, client, gpc, wg, reqs, gret>>
    /\ UNCHANGED <<parserVars, flattenVars, lineVars>>

\* the goroutine, second statement, acc.AddError(w.gatherSummaryStats(acc)),
\* up to parser.Parse; a failed request is returned and handed to
\* acc.AddError, and the deferred wg.Done() runs
WordpressSummaryRequest ==
    /\ plugin.kind = "wordpress"
    /\ tasks # <<>>
    /\ tasks[1].pc = "summary"
    /\ LET t    == tasks[1]
           resp == sendRequest(world, plugin.SummaryStatsURI)
       IN  /\ reqs' = Append(reqs, [task |-> 1, uri |-> plugin.SummaryStatsURI])
           /\ IF resp.err # "nil"
              THEN /\ accumulator' = AddError(accumulator, 1, resp.err)
                   /\ tasks' = [tasks EXCEPT ![1] = [t EXCEPT !.pc = "done", !.ret = resp.err]]
                   /\ wg' = wg - 1
              ELSE /\ tasks' = [tasks EXCEPT ![1] =
                          [t EXCEPT !.pc = "parse", !.after = "summaryadd", !.body = resp.body,
                                    !.parser = NewJSONLiteParser(WordpressMeasurement(plugin.Name),
                                                                 plugin.SummaryStatsTagKeys,
                                                                 EmptyMap)]]
                   /\ UNCHANGED <<accumulator, wg>>
    /\ UNCHANGED <<plugin, world, client, gpc, gret>>
    /\ UNCHANGED <<parserVars, flattenVars, lineVars>>

\* gatherSummaryStats after parser.Parse, acc.AddError of what it returns,
\* and the deferred wg.Done()
WordpressSummaryAdd ==
    /\ plugin.kind = "wordpress"
    /\ tasks # <<>>
    /\ tasks[1].pc = "summaryadd"
    /\ accumulator' = AddParsed(accumulator, 1, tasks[1].parsed,
                                MapSet(EmptyMap, ApiTag, SummaryApi))
    /\ tasks' = [tasks EXCEPT ![1].pc = "done", ![1].ret = tasks[1].parsed.err]
    /\ wg' = wg - 1
    /\ UNCHANGED <<plugin, world, client, gpc, reqs, gret>>
    /\ UNCHANGED <<parserVars, flattenVars, lineVars>>

(***************************************************************************)
(* The wordpress plugin with four optional endpoints (part_003).  Its      *)
(* Gather runs, in one goroutine, the gatherer of every endpoint whose uri *)
(* is set; the configurations here set the top-posts uri only.             *)
(***************************************************************************)
\* "wordpress_topposts"
TopPostsName == <<"w", "o", "r", "d", "p", "r", "e", "s", "s", "_", "t", "o", "p", "p", "o", "s", "t", "s">>

\* ,"total_views":
TotalViewsMark == <<",", "\"", "t", "o", "t", "a", "l", "_", "v", "i", "e", "w", "s", "\"", ":">>

\* regexp.MustCompile("^(.*?)(\\[.*\\])(,\"total_views\":.*)$") with
\* ReplaceAllString(resp, "$2"): when the whole text matches, what is left
\* is the text from the first "[" that has such a "]" after it to the last
\* "]" followed by ,"total_views": ; a text that does not match, or holds a
\* newline, is left as it is
ReduceTopPosts(s) ==
    LET n      == Len(TotalViewsMark)
        closes == { j \in 1..Len(s) : /\ s[j] = "]"
                                     /\ j + n <= Len(s)
                                     /\ SubSeq(s, j + 1, j + n) = TotalViewsMark }
        starts == { i \in 1..Len(s) : s[i] = "[" /\ \E j \in closes : j > i }
    IN  IF starts = {} \/ "\n" \in Range(s) THEN s
        ELSE LET i == CHOOSE x \in starts : \A y \in starts : x <= y
                 j == CHOOSE x \in closes : \A y \in closes : y <= x
             IN  SubSeq(s, i, j)

\* the keys of a post
PostIdKey == <<"i", "d">>

PostViewsKey == <<"v", "i", "e", "w", "s">>

PostTitleKey == <<"t", "i", "t", "l", "e">>

\* {"id":1,"views":16,"title":"F"} and {"id":2,"views":3}
PostTexts ==
    << <<"{", "\"", "i", "d", "\"", ":", "1", ",", "\"", "v", "i", "e", "w", "s", "\"", ":", "1", "6", ",", "\"", "t", "i", "t", "l", "e", "\"", ":", "\"", "F", "\"", "}">>,
       <<"{", "\"", "i", "d", "\"", ":", "2", ",", "\"", "v", "i", "e", "w", "s", "\"", ":", "3", "}">> >>

\* {"d":{"p": POSTS ,"total_views":"9","other_views":4}}
TopPostsEnvelope(posts) ==
    <<"{", "\"", "d", "\"", ":", "{", "\"", "p", "\"", ":">> \o posts \o <<",", "\"", "t", "o", "t", "a", "l", "_", "v", "i", "e", "w", "s", "\"", ":", "\"", "9", "\"", ",", "\"", "o", "t", "h", "e", "r", "_", "v", "i", "e", "w", "s", "\"", ":", "4", "}", "}">>

\* the answers of the top-posts endpoint: the posts in their envelope, the
\* array of posts alone, a failed request
SitePostsAnswers ==
    { Answer(TopPostsEnvelope(ArrayText(PostTexts))),
      Answer(TopPostsEnvelope(ArrayText(<< PostTexts[2] >>))),
      Answer(ArrayText(PostTexts)),
      [err |-> "timeout", body |-> <<>>] }

\* top_posts_tag_keys: the sample configuration's ["id"], none, and a list
\* that names every member
SitePostsTagKeys ==
    { << PostIdKey >>, <<>>, << PostIdKey, PostViewsKey, PostTitleKey >> }

SitePlugins ==
    { [kind |-> "wordpress_site", TopPostsStatsURI |-> <<"T">>, SummaryStatsURI |-> <<>>,
       PostsURI |-> <<>>, TagStatsURI |-> <<>>, TopPostsTagKeys |-> tk]
      : tk \in SitePostsTagKeys }

SiteWorlds == { MapSet(EmptyMap, <<"T">>, a) : a \in SitePostsAnswers }

\* Gather up to wg.Wait(): the client is set when there is none, the one
\* goroutine is launched
SiteGather ==
    /\ plugin.kind = "wordpress_site"
    /\ gpc = "idle"
    /\ client' = "set"
    /\ wg' = wg + 1
    /\ tasks' = Append(tasks, NewTask(<<>>))
    /\ gpc' = "wait"
    /\ UNCHANGED <<plugin, world, accumulator, reqs, gret>>
    /\ UNCHANGED <<parserVars, flattenVars, lineVars>>

\* the goroutine: w.TopPostsStatsURI != "", gatherTopPostsStats up to
\* parser.Parse; a failed request is returned and handed to acc.AddError,
\* the other three uris are empty and the deferred wg.Done() runs
SiteTopPostsRequest ==
    /\ plugin.kind = "wordpress_site"
    /\ tasks # <<>>
    /\ tasks[1].pc = "ready"
    /\ plugin.TopPostsStatsURI # <<>>
    /\ LET t    == tasks[1]
           resp == sendRequest(world, plugin.TopPostsStatsURI)
       IN  /\ reqs' = Append(reqs, [task |-> 1, uri |-> plugin.TopPostsStatsURI])
           /\ IF resp.err # "nil"
              THEN /\ accumulator' = AddError(accumulator, 1, resp.err)
                   /\ tasks' = [tasks EXCEPT ![1] = [t EXCEPT !.pc = "done", !.ret = resp.err]]
                   /\ wg' = wg - 1
              ELSE /\ tasks' = [tasks EXCEPT ![1] =
                          [t EXCEPT !.pc = "parse", !.after = "siteadd",
                                    !.body = ReduceTopPosts(resp.body),
                                    !.parser = NewJSONLiteParser(TopPostsName,
                                                                 plugin.TopPostsTagKeys,
                                                                 EmptyMap)]]
                   /\ UNCHANGED <<accumulator, wg>>
    /\ UNCHANGED <<plugin, world, client, gpc, gret>>
    /\ UNCHANGED <<parserVars, flattenVars, lineVars>>

\* gatherTopPostsStats after parser.Parse and acc.AddError of what it
\* returns; the other three uris are empty, so the deferred wg.Done() runs
SiteTopPostsAdd ==
    /\ plugin.kind = "wordpress_site"
    /\ tasks # <<>>
    /\ tasks[1].pc = "siteadd"
    /\ plugin.SummaryStatsURI = <<>>
    /\ plugin.PostsURI = <<>>
    /\ plugin.TagStatsURI = <<>>
    /\ accumulator' = AddParsed(accumulator, 1, tasks[1].parsed, EmptyMap)
    /\ tasks' = [tasks EXCEPT ![1].pc = "done", ![1].ret = tasks[1].parsed.err]
    /\ wg' = wg - 1
    /\ UNCHANGED <<plugin, world, client, gpc, reqs, gret>>
    /\ UNCHANGED <<parserVars, flattenVars, lineVars>>

(***************************************************************************)
(* gatherTimeline as one call, from its first statement to its return:     *)
(* what one goroutine does to the accumulator when nothing else runs.      *)
(***************************************************************************)
\* for _, tweet := range tweets, from tweets[j] on: [acc, ret]
RECURSIVE TimelineRange(_, _, _, _, _, _)
TimelineRange(a, i, parser, tweets, j, responseTime) ==
    IF j > Len(tweets) THEN [acc |-> a, ret |-> "nil"]
    ELSE LET r == JSONParserParse(parser, tweets[j])
         IN  IF r.err # "nil" THEN [acc |-> a, ret |-> r.err]
             ELSE TimelineRange(AddTweetMetrics(a, i, r.metrics, 1, responseTime),
                                i, parser, tweets, j + 1, responseTime)

\* t.gatherTimeline(acc, screenName), called by goroutine i: [acc, ret]
gatherTimeline(t, w, i, a, screenName) ==
    LET r == showTimeline(w, screenName)
    IN  IF r.err # "nil" THEN [acc |-> a, ret |-> r.err]
        ELSE TimelineRange(a, i,
                           NewJSONParser(TwitterMeasurement(t.Name), t.TagKeys,
                                         MapSet(EmptyMap, ScreenNameTag, screenName)),
                           r.tweets, 1, r.responseTime)

\* the goroutine of screen name i run alone on an empty accumulator:
\* acc.AddError(t.gatherTimeline(acc, screenname))
TaskAlone(t, w, i) ==
    LET o == gatherTimeline(t, w, i, NoAcc, t.ScreenNames[i])
    IN  AddError(o.acc, i, o.ret)

(***************************************************************************)
(* SpecGather: one Gather of one plugin against one world.                 *)
(***************************************************************************)
GatherInit ==
    /\ MetricName = <<"m">>
    /\ TagKeys = <<>>
    /\ DefaultTags = EmptyMap
    /\ pc = "idle"
    /\ input = <<>>
    /\ buf = <<>>
    /\ jsonOut = <<>>
    /\ idx = 1
    /\ metrics = NilSlice
    /\ err = "nil"
    /\ ret = NoReturn
    /\ path = "none"
    /\ elemErrs = <<>>
    /\ decoded = FALSE
    /\ call = NoCall
    /\ runs = <<>>
    /\ lineCall = NoLine
    /\ \/ plugin \in YouTubePlugins /\ world \in YouTubeWorlds
       \/ plugin \in TwitterPlugins /\ world \in TwitterWorlds(plugin)
       \/ plugin \in GithubPlugins /\ world \in GithubWorlds
       \/ plugin \in WordpressPlugins /\ world \in WordpressWorlds
       \/ plugin \in SitePlugins /\ world \in SiteWorlds
    /\ client \in {"nil", "set"}
    /\ gpc = "idle"
    /\ wg = 0
    /\ tasks = <<>>
    /\ accumulator = NoAcc
    /\ reqs = <<>>
    /\ gret = "none"

GatherNext ==
    \/ YouTubeGather
    \/ YouTubeRequestPage
    \/ YouTubePage
    \/ YouTubeRound
    \/ YouTubeVideo
    \/ YouTubeReturn
    \/ TwitterGather
    \/ TwitterLaunch
    \/ \E i \in 1..Len(tasks) : TwitterShowTimeline(i)
    \/ \E i \in 1..Len(tasks) : TwitterTweet(i)
    \/ \E i \in 1..Len(tasks) : TwitterTaskEnd(i)
    \/ GithubGather
    \/ GithubRequest
    \/ GithubAdd
    \/ WordpressGather
    \/ WordpressTopPostsRequest
    \/ WordpressTopPostsAdd
    \/ WordpressSummaryRequest
    \/ WordpressSummaryAdd
    \/ SiteGather
    \/ SiteTopPostsRequest
    \/ SiteTopPostsAdd
    \/ \E i \in 1..Len(tasks) : TaskParse(i)
    \/ GatherReturn

SpecGather == GatherInit /\ [][GatherNext]_vars

(***************************************************************************)
(* What the claims about the plugins speak of.                             *)
(***************************************************************************)
\* the uris requested so far
Requested == { reqs[j].uri : j \in 1..Len(reqs) }

\* the errors handed to AddError so far that are not nil
ErrorsAdded == { accumulator.errors[j].err : j \in 1..Len(accumulator.errors) } \ {"nil"}

\* the decoded object of a page's body; the empty map when it is none
PageObject(body) ==
    LET u == UnmarshalMap(TrimSpace(body))
    IN  IF Len(TrimSpace(body)) > 0 /\ u.err = "nil" THEN u.out ELSE EmptyMap

\* the page token a body carries as its top-level nextPageToken: <<>> for none
TopLevelToken(body) ==
    LET v == MapIndex(PageObject(body), NextPageToken)
    IN  IF v.t = "string" THEN v.s ELSE <<>>

\* the video ids a body lists: its string leaves under a key videoId
ListedVideoIds(body) ==
    { l.val.s : l \in { x \in Leaves(<<>>, JMap(PageObject(body))) :
                          x.val.t = "string" /\ HasSuffix(x.path, VideoIdSuffix) } }

\* the tokens of the pages the chain of nextPageToken values leads to from
\* the page under tok, in at most n steps
RECURSIVE ChainTokens(_, _, _)
ChainTokens(w, tok, n) ==
    IF n = 0 \/ PageURI(tok) \notin DOMAIN w THEN {}
    ELSE IF w[PageURI(tok)].err # "nil" THEN {}
    ELSE {tok} \cup (IF TopLevelToken(w[PageURI(tok)].body) = <<>> THEN {}
                     ELSE ChainTokens(w, TopLevelToken(w[PageURI(tok)].body), n - 1))

\* the first page of the playlist is answered and carries a top-level
\* nextPageToken
FirstPageNamesNext ==
    /\ PageURI(<<>>) \in DOMAIN world
    /\ world[PageURI(<<>>)].err = "nil"
    /\ TopLevelToken(world[PageURI(<<>>)].body) # <<>>

\* C21: when the first playlist page carries a top-level nextPageToken,
\* then once the youtube Gather has returned without any error added, every
\* page that the chain of top-level nextPageToken values leads to has been
\* requested, and so have the statistics of every video those pages list.
C21_EveryPageRequested ==
    (plugin.kind = "youtube" /\ gpc = "returned" /\ ErrorsAdded = {} /\ FirstPageNamesNext) =>
        \A tok \in ChainTokens(world, <<>>, MaxPages) :
            /\ PageURI(tok) \in Requested
            /\ \A id \in ListedVideoIds(world[PageURI(tok)].body) :
                  VideoURI(id) \in Requested

\* C28: gatherPlaylist never reads the first element of an empty metric
\* sequence: whatever body the playlist request is answered with, the call
\* ends by returning and the program does not stop on an index out of
\* range.
C28_NeverIndexesEmptyMetrics ==
    plugin.kind = "youtube" =>
        \A i \in 1..Len(tasks) : tasks[i].ret # PanicIndex

\* the posts of a top-posts body once reduced to the array: its elements
\* that are objects
PostsOf(body) ==
    LET d == DecodeText(TrimSpace(ReduceTopPosts(body)))
    IN  IF d.ok /\ d.v.t = "slice"
        THEN { d.v.v[i].v : i \in { x \in 1..Len(d.v.v) : d.v.v[x].t = "map" } }
        ELSE {}

\* the scalar members of a post other than its id
OtherScalars(post) ==
    [k \in { x \in DOMAIN post : x # PostIdKey /\ post[x].t \in {"float64", "string", "bool"} }
        |-> post[k]]

\* C22: with top_posts_tag_keys = ["id"], once the goroutine has handled an
\* answered top-posts request, every post of the payload has a
\* wordpress_topposts measurement tagged id = the post's id whose fields are
\* the post's other scalar members.
C22_OneMeasurementPerPost ==
    (/\ plugin.kind = "wordpress_site"
     /\ plugin.TopPostsTagKeys = << PostIdKey >>
     /\ tasks # <<>>
     /\ tasks[1].pc = "done"
     /\ world[plugin.TopPostsStatsURI].err = "nil") =>
        \A post \in PostsOf(world[plugin.TopPostsStatsURI].body) :
            \E j \in 1..Len(accumulator.fields) :
                /\ accumulator.fields[j].name = TopPostsName
                /\ accumulator.fields[j].tags =
                       MapSet(EmptyMap, PostIdKey, FormatFloat(post[PostIdKey].n))
                /\ accumulator.fields[j].fields = OtherScalars(post)

\* the calls of AddFields and of AddError that goroutine i has made, in order
FieldCallsOf(a, i) == SelectSeq(a.fields, LAMBDA e : e.task = i)

ErrorCallsOf(a, i) == SelectSeq(a.errors, LAMBDA e : e.task = i)

\* the uris goroutine i has requested
RequestedBy(i) == { reqs[j].uri : j \in { x \in 1..Len(reqs) : reqs[x].task = i } }

\* the timeline of screen name sn is answered with a first tweet the parser
\* accepts
HasTweet(sn) ==
    /\ world[sn].err = "nil"
    /\ world[sn].tweets # <<>>
    /\ world[sn].tweets[1].ok

\* a metric of the given name tagged screen_name = sn has been added
AddedFor(name, sn) ==
    \E j \in 1..Len(accumulator.fields) :
        /\ accumulator.fields[j].name = name
        /\ ScreenNameTag \in DOMAIN accumulator.fields[j].tags
        /\ accumulator.fields[j].tags[ScreenNameTag] = sn

\* C23: once the twitter Gather has returned, every configured screen name
\* whose timeline has a tweet has a metric named "twitter_" followed by the
\* plugin's Name, whatever Name is, tagged screen_name = that screen name.
C23_NamedTwitterUnderscoreName ==
    (plugin.kind = "twitter" /\ gpc = "returned") =>
        \A sn \in Range(plugin.ScreenNames) :
            HasTweet(sn) => AddedFor(TwitterName \o <<"_">> \o plugin.Name, sn)

\* C25: when the Gather of the twitter or of the github plugin has
\* returned, it has launched every task it had to, every task is done and
\* has called AddError exactly once with what its gatherer returned, and
\* Gather has returned nil.
C25_ReturnsAfterEveryTask ==
    (plugin.kind \in {"twitter", "github"} /\ gpc = "returned") =>
        /\ gret = "nil"
        /\ Len(tasks) = (IF plugin.kind = "twitter" THEN Len(plugin.ScreenNames) ELSE 1)
        /\ wg = 0
        /\ \A i \in 1..Len(tasks) :
              /\ tasks[i].pc = "done"
              /\ ErrorCallsOf(accumulator, i) = << [task |-> i, err |-> tasks[i].ret] >>

\* a Gather of two tasks has returned, one task having failed and one not
C25_Witness ==
    /\ plugin.kind = "twitter"
    /\ gpc = "returned"
    /\ Len(tasks) = 2
    /\ tasks[1].ret # "nil"
    /\ tasks[2].ret = "nil"
    /\ Len(accumulator.errors) = 2

\* C26: in a twitter Gather the client is set before any task exists, and
\* once Gather has returned every task has made the calls of AddFields and
\* AddError it makes when run alone, in the same order, however the tasks
\* were interleaved.
C26_TasksShareOnlyAccumulator ==
    plugin.kind = "twitter" =>
        /\ (tasks # <<>> \/ gpc \in {"launch", "wait", "returned"}) => client = "set"
        /\ gpc = "returned" =>
              \A i \in 1..Len(plugin.ScreenNames) :
                  /\ FieldCallsOf(accumulator, i) = TaskAlone(plugin, world, i).fields
                  /\ ErrorCallsOf(accumulator, i) = TaskAlone(plugin, world, i).errors
                  /\ RequestedBy(i) = {plugin.ScreenNames[i]}

\* two tasks have added metrics, the second before the first, and Gather
\* has returned
C26_Witness ==
    /\ plugin.kind = "twitter"
    /\ gpc = "returned"
    /\ Len(accumulator.fields) >= 2
    /\ accumulator.fields[1].task = 2
    /\ \E j \in 2..Len(accumulator.fields) : accumulator.fields[j].task = 1

\* C24 as stated: no task of a twitter or wordpress Gather fetches more
\* than one endpoint.
C24_OneTaskPerEndpoint ==
    plugin.kind \in {"twitter", "wordpress"} =>
        \A i \in 1..Len(tasks) : Cardinality(RequestedBy(i)) <= 1

\* C24: the twitter Gather launches one task per screen name and each task
\* fetches the timeline of its own screen name only; the wordpress Gather
\* launches a single task, which requests the top-posts stats first and the
\* summary stats only after the result of the top-posts gatherer has gone to
\* AddError.
C24_TaskPerScreenNameOneForWordpress ==
    /\ (plugin.kind = "twitter" /\ gpc \in {"wait", "returned"}) =>
          /\ Len(tasks) = Len(plugin.ScreenNames)
          /\ \A i \in 1..Len(tasks) : RequestedBy(i) \subseteq {plugin.ScreenNames[i]}
    /\ plugin.kind = "wordpress" =>
          /\ Len(tasks) <= 1
          /\ \A j \in 1..Len(reqs) :
                /\ reqs[j].task = 1
                /\ reqs[j].uri = (IF j = 1 THEN plugin.TopPostsStatsURI
                                  ELSE plugin.SummaryStatsURI)
          /\ Len(reqs) <= 2
          /\ Len(reqs) = 2 => Len(ErrorCallsOf(accumulator, 1)) >= 1

\* the one task of a wordpress Gather has fetched both endpoints, the
\* top-posts metrics were added before the summary stats were requested
C24_Witness ==
    /\ plugin.kind = "wordpress"
    /\ Len(tasks) = 1
    /\ RequestedBy(1) = {plugin.TopPostsStatsURI, plugin.SummaryStatsURI}
    /\ tasks[1].pc = "parse"
    /\ tasks[1].after = "summaryadd"
    /\ Len(accumulator.fields) >= 1

====
